---- MODULE Spec2Model ----
(***************************************************************************)
(* Model of the connector selector of NicoMate                             *)
(* (src/app/core/connector.py, class LLMConnectorSelector) and of the      *)
(* session layer that drives it (src/app/services/connector_service.py).   *)
(*                                                                         *)
(* Number representation.  Python floats are modelled as exact fixed-point *)
(* integers:                                                               *)
(*   - a confidence is counted in twentieths   (20 = 1.0, 19 = 0.95),      *)
(*   - an attribute score is counted in twentieths (40 = 2.0, 3 = 0.15),   *)
(*   - a connector score is counted in 1/SCALE   (SCALE = one point).      *)
(* Every product the scoring code forms is exact in these units for the    *)
(* input sets used below, so a comparison in the model is the comparison   *)
(* of the exact rational values the code computes.                         *)
(*   - pitch and height are in hundredths of a millimetre, pin counts,     *)
(*     temperatures and wire gauges are plain integers.                    *)
(* Free text values are sequences of one-character strings so that         *)
(* lower(), upper(), replace() and the substring tests of the code are     *)
(* computed and not tabulated.                                             *)
(***************************************************************************)
EXTENDS Integers, Sequences, FiniteSets, TLC

----------------------------------------------------------------------------
(* Generic helpers *)

\* the member of a one-element set: The({body : x \in {e}}) is body with x
\* standing for the value of e
The(S) == CHOOSE x \in S : TRUE

Max(a, b) == IF a >= b THEN a ELSE b

Min(a, b) == IF a <= b THEN a ELSE b

Abs(a) == IF a >= 0 THEN a ELSE -a

LowerLetters == <<"a","b","c","d","e","f","g","h","i","j","k","l","m",
                  "n","o","p","q","r","s","t","u","v","w","x","y","z">>

UpperLetters == <<"A","B","C","D","E","F","G","H","I","J","K","L","M",
                  "N","O","P","Q","R","S","T","U","V","W","X","Y","Z">>

DigitChars == <<"0","1","2","3","4","5","6","7","8","9">>

ToLower == [ch \in {UpperLetters[i] : i \in 1..26} |->
               LowerLetters[CHOOSE i \in 1..26 : UpperLetters[i] = ch]]

ToUpper == [ch \in {LowerLetters[i] : i \in 1..26} |->
               UpperLetters[CHOOSE i \in 1..26 : LowerLetters[i] = ch]]

LowerChar(ch) == IF ch \in DOMAIN ToLower THEN ToLower[ch] ELSE ch

UpperChar(ch) == IF ch \in DOMAIN ToUpper THEN ToUpper[ch] ELSE ch

\* str.lower()
Lower(s) == [i \in 1..Len(s) |-> LowerChar(s[i])]

\* str.upper()
Upper(s) == [i \in 1..Len(s) |-> UpperChar(s[i])]

\* sub in s
Contains(sub, s) ==
    \E i \in 1..(Len(s) - Len(sub) + 1) : SubSeq(s, i, i + Len(sub) - 1) = sub

\* s.replace(sub, ""), leftmost occurrences first
RECURSIVE RemoveAll(_, _)
RemoveAll(s, sub) ==
    IF Len(s) < Len(sub) \/ Len(sub) = 0 THEN s
    ELSE IF SubSeq(s, 1, Len(sub)) = sub
         THEN RemoveAll(SubSeq(s, Len(sub) + 1, Len(s)), sub)
         ELSE <<s[1]>> \o RemoveAll(Tail(s), sub)

IsDigit(ch) == \E i \in 1..10 : DigitChars[i] = ch

DigitVal(ch) == (CHOOSE i \in 1..10 : DigitChars[i] = ch) - 1

RECURSIVE StripLeft(_)
StripLeft(s) == IF Len(s) > 0 /\ s[1] = " " THEN StripLeft(Tail(s)) ELSE s

RECURSIVE StripRight(_)
StripRight(s) ==
    IF Len(s) > 0 /\ s[Len(s)] = " " THEN StripRight(SubSeq(s, 1, Len(s) - 1)) ELSE s

\* str.strip()
Strip(s) == StripRight(StripLeft(s))

RECURSIVE DigitsValue(_)
DigitsValue(s) ==
    IF Len(s) = 0 THEN 0
    ELSE 10 * DigitsValue(SubSeq(s, 1, Len(s) - 1)) + DigitVal(s[Len(s)])

\* int(s) of a string: surrounding blanks and one sign are accepted, then
\* only digits; anything else is a ValueError (ok = FALSE).
ParseInt(s) ==
    The({The({IF Len(body) > 0 /\ \A i \in 1..Len(body) : IsDigit(body[i])
              THEN [ok |-> TRUE,
                    n |-> IF Len(t) > 0 /\ t[1] = "-" THEN 0 - DigitsValue(body)
                          ELSE DigitsValue(body)]
              ELSE [ok |-> FALSE, n |-> 0] :
                 body \in {IF Len(t) > 0 /\ t[1] \in {"+", "-"} THEN Tail(t) ELSE t}}) :
            t \in {Strip(s)}})

RECURSIVE SeqSum(_)
SeqSum(s) == IF Len(s) = 0 THEN 0 ELSE s[1] + SeqSum(Tail(s))

----------------------------------------------------------------------------
(* Values held in answers: Python's None, bool, number and str *)

NoneV == [k |-> "none", b |-> FALSE, n |-> 0, s |-> <<>>]

BoolV(x) == [k |-> "bool", b |-> x, n |-> 0, s |-> <<>>]

NumV(x) == [k |-> "num", b |-> FALSE, n |-> x, s |-> <<>>]

StrV(x) == [k |-> "str", b |-> FALSE, n |-> 0, s |-> x]

\* a float given in hundredths, where the fraction matters
FloatV(x) == [k |-> "float", b |-> FALSE, n |-> x, s |-> <<>>]

\* float("nan") and float("inf"), which json.loads reads from NaN and Infinity
NanV == [k |-> "nan", b |-> FALSE, n |-> 0, s |-> <<>>]

InfV == [k |-> "inf", b |-> FALSE, n |-> 0, s |-> <<>>]

\* an exception left the call instead of a value
RaisedV == [k |-> "raise", b |-> FALSE, n |-> 0, s |-> <<>>]

\* int(x) of a float in hundredths: truncation towards zero
Trunc(x) == IF x >= 0 THEN x \div 100 ELSE 0 - ((0 - x) \div 100)

\* bool(value)
Truthy(v) ==
    CASE v.k = "none" -> FALSE
      [] v.k = "bool" -> v.b
      [] v.k = "num"  -> v.n # 0
      [] OTHER        -> Len(v.s) > 0

\* int(value) / float(value) of an answer value, in multiples of 1/unit
ToNumber(v, unit) ==
    CASE v.k = "num"  -> [ok |-> TRUE, n |-> v.n]
      [] v.k = "bool" -> [ok |-> TRUE, n |-> IF v.b THEN unit ELSE 0]
      [] v.k = "str"  -> The({[ok |-> p.ok, n |-> p.n * unit] : p \in {ParseInt(v.s)}})
      [] OTHER        -> [ok |-> FALSE, n |-> 0]

S_metal == <<"m","e","t","a","l">>

S_metallic == <<"m","e","t","a","l","l","i","c">>

S_aluminum == <<"a","l","u","m","i","n","u","m">>

S_steel == <<"s","t","e","e","l">>

S_alloy == <<"a","l","l","o","y">>

S_plastic == <<"p","l","a","s","t","i","c">>

S_internal == <<"i","n","t","e","r","n","a","l">>

S_external == <<"e","x","t","e","r","n","a","l">>

S_in_box == <<"i","n"," ","b","o","x">>

S_on_board == <<"o","n"," ","b","o","a","r","d">>

S_inside == <<"i","n","s","i","d","e">>

S_onboard == <<"o","n","b","o","a","r","d">>

S_out_of_box == <<"o","u","t"," ","o","f"," ","b","o","x">>

S_panel_mount == <<"p","a","n","e","l"," ","m","o","u","n","t">>

S_outside == <<"o","u","t","s","i","d","e">>

S_AWG == <<"A","W","G">>

S_PCB_to_Cable == <<"P","C","B","-","t","o","-","C","a","b","l","e">>

S_Cable_to_PCB == <<"C","a","b","l","e","-","t","o","-","P","C","B">>

S_pcb_to_cable_sp == <<"p","c","b"," ","t","o"," ","c","a","b","l","e">>

S_cable_to_pcb_sp == <<"c","a","b","l","e"," ","t","o"," ","p","c","b">>

S_PCB_to_PCB == <<"P","C","B","-","t","o","-","P","C","B">>

S_pcb_to_pcb == <<"p","c","b","-","t","o","-","p","c","b">>

S_pcb_to_pcb_sp == <<"p","c","b"," ","t","o"," ","p","c","b">>

S_board_to_board == <<"b","o","a","r","d"," ","t","o"," ","b","o","a","r","d">>

S_Cable_to_Cable == <<"C","a","b","l","e","-","t","o","-","C","a","b","l","e">>

\* "AWG24" and the like, as the catalog writes supported gauges
Awg(d1, d2) == S_AWG \o <<d1, d2>>

----------------------------------------------------------------------------
(* Catalog Store: self.connectors (only the fields the engine reads) *)

AMM_specs ==
    [ pitch_size |-> 100,
      emi_protection |-> FALSE,
      housing_material |-> S_plastic,
      panel_mount |-> FALSE,
      height_range |-> <<400, 400>>,
      right_angle |-> FALSE,
      temp_range |-> <<-65, 200>>,
      mixed_power_signal |-> FALSE,
      wire_gauge |-> <<
          Awg("2", "6"), Awg("2", "8"), Awg("3", "0") >>,
      height_options |-> <<
          400 >>,
      valid_pin_counts |-> {
          6, 10, 20, 34, 50 },
      max_pins |-> 50 ]

CMM_specs ==
    [ pitch_size |-> 200,
      emi_protection |-> FALSE,
      housing_material |-> S_plastic,
      panel_mount |-> FALSE,
      height_range |-> <<350, 800>>,
      right_angle |-> TRUE,
      temp_range |-> <<-60, 260>>,
      mixed_power_signal |-> TRUE,
      wire_gauge |-> <<
          Awg("1", "2"), Awg("1", "4"), Awg("1", "6"), Awg("1", "8"),
          Awg("2", "0"), Awg("2", "2"), Awg("2", "4"), Awg("2", "6"),
          Awg("2", "8"), Awg("3", "0") >>,
      height_options |-> <<
          350, 400, 550, 600, 770, 800 >>,
      valid_pin_counts |-> {
          2, 3, 4, 5, 6, 7, 8, 9, 10, 11, 12, 13, 14, 15, 16, 17, 18, 19,
          20, 21, 22, 23, 24, 25, 26, 28, 30, 32, 34, 36, 38, 40, 42, 44,
          46, 48, 50, 52, 54, 56, 58, 60, 63, 66, 69, 72, 75, 78, 81, 84,
          87, 90, 93, 96, 99, 102, 105, 108, 111, 114, 117, 120 },
      max_pins |-> 120 ]

DMM_specs ==
    [ pitch_size |-> 200,
      emi_protection |-> TRUE,
      housing_material |-> S_metal,
      panel_mount |-> TRUE,
      height_range |-> <<500, 1750>>,
      right_angle |-> TRUE,
      temp_range |-> <<-55, 125>>,
      mixed_power_signal |-> TRUE,
      wire_gauge |-> <<
          Awg("1", "2"), Awg("1", "4"), Awg("1", "6"), Awg("1", "8"),
          Awg("2", "0"), Awg("2", "2"), Awg("2", "4"), Awg("2", "6"),
          Awg("2", "8"), Awg("3", "0") >>,
      height_options |-> <<
          500, 620, 700, 820, 900, 920, 965, 1010, 1020, 1050, 1055, 1100,
          1145, 1150, 1190, 1200, 1220, 1235, 1250, 1280, 1300, 1325,
          1350, 1370, 1400, 1415, 1450, 1460, 1500, 1505, 1550, 1600,
          1650, 1700, 1750 >>,
      valid_pin_counts |-> {
          2, 3, 4, 5, 6, 7, 8, 9, 10, 11, 12, 13, 14, 15, 16, 17, 18, 19,
          20, 21, 22, 23, 24, 25, 26, 27, 28, 29, 30, 32, 33, 34, 36, 38,
          39, 40, 42, 44, 45, 46, 48, 50, 51, 52, 54, 56, 57, 58, 60, 63,
          64, 66, 68, 69, 72, 75, 76, 78, 80, 81, 84, 87, 88, 90, 92, 96,
          100, 104, 108, 112, 116, 120 },
      max_pins |-> 120 ]

EMM_specs ==
    [ pitch_size |-> 127,
      emi_protection |-> FALSE,
      housing_material |-> S_plastic,
      panel_mount |-> FALSE,
      height_range |-> <<460, 460>>,
      right_angle |-> TRUE,
      temp_range |-> <<-65, 200>>,
      mixed_power_signal |-> FALSE,
      wire_gauge |-> <<
          Awg("2", "4"), Awg("2", "6"), Awg("2", "8"), Awg("3", "0") >>,
      height_options |-> <<
          460 >>,
      valid_pin_counts |-> {
          4, 6, 8, 10, 12, 14, 16, 18, 20, 22, 24, 26, 28, 30, 32, 34, 36,
          38, 40, 42, 44, 46, 48, 50, 52, 54, 56, 58, 60 },
      max_pins |-> 60 ]

connectors == [AMM |-> AMM_specs, CMM |-> CMM_specs, DMM |-> DMM_specs, EMM |-> EMM_specs]

\* iteration order of the self.connectors dict
connector_names == <<"AMM", "CMM", "DMM", "EMM">>

ConnectorSet == {"AMM", "CMM", "DMM", "EMM"}

(* Question Catalog: self.all_questions *)
all_questions ==
    << [attribute |-> "connection_types", weight |-> 25, order |-> 1],
       [attribute |-> "location", weight |-> 30, order |-> 2],
       [attribute |-> "housing_material", weight |-> 70, order |-> 3],
       [attribute |-> "mixed_power_signal", weight |-> 20, order |-> 4],
       [attribute |-> "pin_count", weight |-> 25, order |-> 5],
       [attribute |-> "height_requirement", weight |-> 10, order |-> 6],
       [attribute |-> "pitch_size", weight |-> 70, order |-> 7],
       [attribute |-> "right_angle", weight |-> 30, order |-> 8],
       [attribute |-> "temp_range", weight |-> 30, order |-> 9],
       [attribute |-> "max_current", weight |-> 25, order |-> 10],
       [attribute |-> "wire_gauge", weight |-> 25, order |-> 11] >>

QuestionAttrs == {all_questions[i].attribute : i \in 1..Len(all_questions)}

\* next((q for q in self.all_questions if q["attribute"] == attr), None)
QuestionOf(attr) ==
    all_questions[CHOOSE i \in 1..Len(all_questions) : all_questions[i].attribute = attr]

----------------------------------------------------------------------------
(* Scoring Engine: calculate_connector_score *)

\* one score point, in the unit connector scores are counted in
SCALE == 4000000

\* normalize_awg_value: a number is truncated to int (a bool is an int in
\* Python; int() of a NaN is a ValueError and of an infinity an
\* OverflowError, neither caught), a string holding "AWG" is parsed after
\* removing it, anything else -- and a parse failure -- gives None.
normalize_awg_value(v) ==
    CASE v.k = "num"  -> NumV(v.n)
      [] v.k = "bool" -> NumV(IF v.b THEN 1 ELSE 0)
      [] v.k = "float" -> NumV(Trunc(v.n))
      [] v.k \in {"nan", "inf"} -> RaisedV
      [] v.k = "str"  ->
           The({IF Contains(S_AWG, awg_str)
                THEN The({IF p.ok THEN NumV(p.n) ELSE NoneV :
                             p \in {ParseInt(RemoveAll(awg_str, S_AWG))}})
                ELSE NoneV :
                   awg_str \in {Upper(v.s)}})
      [] OTHER        -> NoneV

\* app.utils.helpers.normalize_awg_value, the module-level copy
helpers_normalize_awg_value(awg_value) ==
    IF awg_value.k \in {"num", "bool", "float", "nan", "inf"}
    THEN CASE awg_value.k \in {"nan", "inf"} -> RaisedV
           [] awg_value.k = "float" -> NumV(Trunc(awg_value.n))
           [] awg_value.k = "bool" -> NumV(IF awg_value.b THEN 1 ELSE 0)
           [] OTHER -> NumV(awg_value.n)
    ELSE IF awg_value.k = "str" /\ Contains(S_AWG, Upper(awg_value.s))
    THEN The({IF p.ok THEN NumV(p.n) ELSE NoneV :
                 p \in {ParseInt(RemoveAll(Upper(awg_value.s), S_AWG))}})
    ELSE NoneV

\* result of scoring one attribute: attr_score in twentieths, the critical
\* mismatch factor it appended ("" for none), skip for the `continue` taken
\* after the weight was added, raise for an exception leaving the function
AttrResult(score, crit) == [score |-> score, crit |-> crit, skip |-> FALSE, raise |-> FALSE]

AttrSkip == [score |-> 0, crit |-> "", skip |-> TRUE, raise |-> FALSE]

AttrRaise == [score |-> 0, crit |-> "", skip |-> FALSE, raise |-> TRUE]

internal_keywords == {S_internal, S_in_box, S_on_board, S_inside, S_onboard}

external_keywords == {S_external, S_out_of_box, S_panel_mount, S_outside}

metal_names == {S_metal, S_metallic, S_aluminum, S_steel, S_alloy}

location_score(specs, v) ==
    The({IF v.k = "str" /\ \E kw \in internal_keywords : Contains(kw, location_value)
         THEN AttrResult(20, "")
         ELSE IF v.k = "str" /\ \E kw \in external_keywords : Contains(kw, location_value)
              THEN (IF specs.panel_mount THEN AttrResult(30, "") ELSE AttrResult(6, ""))
              ELSE AttrResult(20, "") :
            location_value \in {Lower(v.s)}})

connection_types_score(v) ==
    IF v.k = "str" /\ v.s \in {S_PCB_to_Cable, S_Cable_to_PCB, S_pcb_to_cable_sp, S_cable_to_pcb_sp}
    THEN AttrResult(20, "")
    ELSE AttrResult(16, "")

right_angle_score(specs, v) ==
    IF Truthy(v)
    THEN IF specs.right_angle THEN AttrResult(20, "") ELSE AttrResult(6, "")
    ELSE AttrResult(20, "")

\* normalize_awg_value of every gauge string of the catalog (the loop over
\* supported_awgs_raw computes these on every call; the values never change)
catalog_awg_values ==
    UNION {{<<connectors[c].wire_gauge[i], normalize_awg_value(StrV(connectors[c].wire_gauge[i]))>> :
                i \in 1..Len(connectors[c].wire_gauge)} : c \in ConnectorSet}

\* the supported gauges of the candidate, normalised; None results are dropped
supported_awgs(specs) ==
    {e[2].n : e \in {e \in catalog_awg_values :
                        /\ \E i \in 1..Len(specs.wire_gauge) : specs.wire_gauge[i] = e[1]
                        /\ e[2].k # "none"}}

\* variant: an unsupported gauge earns half credit and flags nothing
wire_gauge_score_partial(specs, v) ==
    The({IF required_awg.k = "none" THEN AttrSkip
         ELSE IF required_awg.n \in supported THEN AttrResult(20, "")
         ELSE AttrResult(10, "") :
            required_awg \in {normalize_awg_value(v)}, supported \in {supported_awgs(specs)}})

wire_gauge_score(specs, v) ==
    The({IF required_awg.k = "none" THEN AttrSkip
         ELSE IF supported # {} /\ required_awg.n \in supported THEN AttrResult(20, "")
         ELSE AttrResult(0, "awg") :
            required_awg \in {normalize_awg_value(v)}, supported \in {supported_awgs(specs)}})

\* distance from x to the nearest member of the non-empty set S
MinDist(S, x) ==
    LET dists == {Abs(y - x) : y \in S}
    IN  CHOOSE d \in dists : \A e \in dists : d <= e

\* the score of a height h (hundredths of a millimetre) outside the range:
\* relative_diff = height_diff / den
height_off_range(height_diff, den) ==
    IF 10 * height_diff <= den THEN AttrResult(19, "")
    ELSE IF 10 * height_diff <= 2 * den THEN AttrResult(17, "")
    ELSE IF 10 * height_diff <= 3 * den THEN AttrResult(14, "")
    ELSE AttrResult(Max(8, 16 - ((10 * height_diff) \div den)),
                    IF 10 * height_diff > 8 * den THEN "height" ELSE "")

\* The branch for answers["height_requirement_range"] (lines 2401-2426) is
\* not modelled: no code of the repository stores that key.
\* 0.8 - relative_diff / 2 is exact in twentieths whenever the requested
\* height divides ten times the distance; the inputs used are such.
height_requirement_score(specs, v) ==
    The({IF ~h.ok THEN AttrRaise
         ELSE IF specs.height_range[1] <= h.n /\ h.n <= specs.height_range[2]
              THEN AttrResult(20, "")
         ELSE IF Len(specs.height_options) > 0
              THEN height_off_range(
                       MinDist({specs.height_options[i] : i \in 1..Len(specs.height_options)}, h.n),
                       IF h.n > 0 THEN h.n ELSE 100)
         ELSE AttrResult(10, "") :
            h \in {ToNumber(v, 100)}})

\* variant: max_pins itself is already too many
pin_count_score_ge(specs, v) ==
    The({IF ~p.ok THEN AttrRaise
         ELSE IF p.n >= specs.max_pins THEN AttrResult(0, "pin_max")
         ELSE IF p.n \in specs.valid_pin_counts THEN AttrResult(20, "")
         ELSE AttrResult(4, "") :
            p \in {ToNumber(v, 1)}})

\* the score of a pin count that is not a valid one, by its distance to the
\* nearest valid count
pin_off_count(pin_diff) ==
    IF pin_diff <= 2 THEN AttrResult(16, "")
    ELSE IF pin_diff <= 4 THEN AttrResult(10, "")
    ELSE AttrResult(4, IF pin_diff > 10 THEN "pin_far" ELSE "")

pin_count_score(specs, v) ==
    The({IF ~p.ok THEN AttrRaise
         ELSE IF p.n > specs.max_pins THEN AttrResult(0, "pin_max")
         ELSE IF p.n \in specs.valid_pin_counts THEN AttrResult(20, "")
         ELSE IF specs.valid_pin_counts # {}
              THEN pin_off_count(MinDist(specs.valid_pin_counts, p.n))
         ELSE AttrResult(0, "") :
            p \in {ToNumber(v, 1)}})

\* "metal" for the metal names, "plastic" for every other material
material_normalized(is_str, name) ==
    IF is_str /\ Lower(name) \in metal_names THEN "metal" ELSE "plastic"

\* variant: a metal requirement on a non-metal candidate is an ordinary
\* mismatch, scored 0.5 and not critical
housing_material_score_lenient(specs, v) ==
    The({IF required # connector THEN AttrResult(10, "")
         ELSE IF required = "metal" THEN AttrResult(26, "")
         ELSE AttrResult(24, "") :
            required \in {material_normalized(v.k = "str", v.s)},
            connector \in {material_normalized(TRUE, specs.housing_material)}})

\* variant: every housing requirement counts as met
housing_material_score_match(specs, v) == AttrResult(24, "")

housing_material_score(specs, v) ==
    The({IF required_material_normalized = connector_material_normalized
         THEN (IF required_material_normalized = "metal"
               THEN AttrResult(26, "")
               ELSE AttrResult(24, ""))
         ELSE (IF required_material_normalized = "metal"
               THEN AttrResult(3, "metal")
               ELSE AttrResult(10, "")) :
            required_material_normalized \in {material_normalized(v.k = "str", v.s)},
            connector_material_normalized \in {material_normalized(TRUE, specs.housing_material)}})

\* variant: the missing capability is no critical mismatch
mixed_power_signal_score_lenient(specs, v) ==
    IF ~Truthy(v) THEN AttrResult(20, "")
    ELSE IF specs.mixed_power_signal THEN AttrResult(30, "")
    ELSE AttrResult(2, "")

mixed_power_signal_score(specs, v) ==
    IF ~Truthy(v) THEN AttrResult(20, "")
    ELSE IF specs.mixed_power_signal THEN AttrResult(30, "")
    ELSE AttrResult(2, "mixed")

\* max(0.3, 1.0 - temp_diff / 75.0) in twentieths; exact when temp_diff is a
\* multiple of 15 or at least 53 (where the floor 0.3 applies)
temp_decay(temp_diff) == Max(6, 20 - ((4 * temp_diff) \div 15))

temp_range_score(specs, v) ==
    The({IF ~t.ok THEN AttrRaise
         ELSE IF specs.temp_range[1] <= t.n /\ t.n <= specs.temp_range[2] THEN AttrResult(20, "")
         ELSE IF t.n > specs.temp_range[2]
              THEN AttrResult(temp_decay(t.n - specs.temp_range[2]),
                              IF t.n - specs.temp_range[2] > 50 THEN "temp" ELSE "")
         ELSE AttrResult(temp_decay(specs.temp_range[1] - t.n), "") :
            t \in {ToNumber(v, 1)}})

\* the digits of kept before and after its one dot, in hundredths
pitch_digits(kept, dot) ==
    100 * DigitsValue(SubSeq(kept, 1, dot - 1))
        + DigitsValue(SubSeq(SubSeq(kept, dot + 1, Len(kept)) \o <<"0", "0">>, 1, 2))

\* float("".join(c for c in value if c.isdigit() or c == ".")) in hundredths;
\* ok = FALSE is the ValueError of float()
ParsePitchString(s) ==
    The({The({IF Cardinality(dots) > 1 \/ Len(kept) = Cardinality(dots)
              THEN [ok |-> FALSE, n |-> 0]
              ELSE [ok |-> TRUE,
                    n |-> pitch_digits(kept, IF dots = {} THEN Len(kept) + 1
                                             ELSE CHOOSE i \in dots : TRUE)] :
                 dots \in {{i \in 1..Len(kept) : kept[i] = "."}}}) :
            kept \in {SelectSeq(s, LAMBDA ch : IsDigit(ch) \/ ch = ".")}})

pitch_size_score(specs, v) ==
    The({IF Abs(pitch_value - specs.pitch_size) < 5
         THEN AttrResult(40, "")
         ELSE AttrResult(2, "pitch") :
            pitch_value \in {IF v.k = "str"
                             THEN The({IF parsed.ok THEN parsed.n ELSE 0 :
                                          parsed \in {ParsePitchString(v.s)}})
                             ELSE v.n * (IF v.k = "num" THEN 1 ELSE 0)
                                  + (IF v.k = "bool" /\ v.b THEN 100 ELSE 0)}})

\* the generic branches that remain for max_current: a bool never equals the
\* catalog's numeric rating, any other value takes the default score
max_current_score(specs, v) ==
    IF v.k = "bool"
    THEN (IF ~v.b THEN AttrResult(14, "") ELSE AttrResult(6, ""))
    ELSE AttrResult(10, "")

attr_result(specs, attr, v) ==
    CASE attr = "location"           -> location_score(specs, v)
      [] attr = "connection_types"   -> connection_types_score(v)
      [] attr = "right_angle"        -> right_angle_score(specs, v)
      [] attr = "wire_gauge"         -> wire_gauge_score(specs, v)
      [] attr = "height_requirement" -> height_requirement_score(specs, v)
      [] attr = "pin_count"          -> pin_count_score(specs, v)
      [] attr = "housing_material"   -> housing_material_score(specs, v)
      [] attr = "mixed_power_signal" -> mixed_power_signal_score(specs, v)
      [] attr = "temp_range"         -> temp_range_score(specs, v)
      [] attr = "pitch_size"         -> pitch_size_score(specs, v)
      [] OTHER                       -> max_current_score(specs, v)

\* the value calculate_connector_score stands for when an exception leaves it
RAISED == 0 - 1

\* the answers the loop scores: not None, confidence not 0 (a question of
\* the catalog carries the attribute: the loop is run along all_questions)
is_scored(answers, attr) ==
    /\ attr \in DOMAIN answers
    /\ answers[attr][1].k # "none"
    /\ answers[attr][2] # 0

\* variant: no floor under the score
min_score_none(answers) == 0

\* variant: the floor of 5 whatever the number of answers
min_score_five(answers) == 5 * SCALE

\* min_score: 20 with fewer than 3 entries in answers, 5 otherwise
min_score(answers) ==
    IF Cardinality(DOMAIN answers) < 3 THEN 20 * SCALE ELSE 5 * SCALE

\* the early return for a total_weight below 0.001
no_weight_score == 0

\* the return for a housing material the candidate does not have, taken when
\* housing_material and location are both in answers
material_mismatch_score == 0

\* is_panel_mount of the bonus block
is_panel_mount(location_value) ==
    /\ location_value.k = "str"
    /\ \/ location_value.s = S_external
       \/ The({\E kw \in external_keywords : Contains(kw, location_lower) :
                  location_lower \in {Lower(location_value.s)}})

\* material_bonus in tenths; housing_material and location are in answers
material_bonus(specs, answers) ==
    IF /\ answers["housing_material"][1].k = "str"
       /\ answers["housing_material"][1].s = specs.housing_material
    THEN (IF answers["housing_material"][1].s = S_metal /\ is_panel_mount(answers["location"][1])
          THEN 12 ELSE 11)
    ELSE 10

\* variant: the bonus block finds no two materials inconsistent
material_inconsistent_never(specs, answers) == FALSE

\* required_normalized != connector_normalized of the bonus block, which
\* knows only "metal" and "metallic" and does not lower-case
material_inconsistent(specs, answers) ==
    (answers["housing_material"][1].k = "str"
        /\ answers["housing_material"][1].s \in {S_metal, S_metallic})
    # (specs.housing_material \in {S_metal, S_metallic})

\* penalty_factor in 1/400: max(0.5, 0.8 - 0.03 * len(factors)), halved for
\* the mixed-power factor and halved for the metal-housing factor
penalty_factor(factors) ==
    (Max(50, 80 - 3 * Cardinality(factors)) * 4)
        \div ((IF "mixed" \in factors THEN 2 ELSE 1) * (IF "metal" \in factors THEN 2 ELSE 1))

\* min(100.0, final10k / 10000 * pf400 / 400) in 1/SCALE, formed without
\* leaving the 32-bit range
capped_product(final10k, pf400) ==
    IF final10k >= ((100 * SCALE) + pf400 - 1) \div pf400
    THEN 100 * SCALE
    ELSE final10k * pf400

\* the accumulators of the scoring loop: total_weight in twentieths,
\* total_weighted_score in 1/400, the critical mismatch factors, and whether
\* an exception left the loop
LoopStart == [total_weight |-> 0, total_weighted_score |-> 0, factors |-> {}, raise |-> FALSE]

\* the accumulators after an attribute of weight adjusted_weight scored r
Accumulate(acc, adjusted_weight, r) ==
    [total_weight |-> acc.total_weight + adjusted_weight,
     total_weighted_score |->
         acc.total_weighted_score + (IF r.skip \/ r.raise THEN 0 ELSE adjusted_weight * r.score),
     factors |-> IF r.crit = "" THEN acc.factors ELSE acc.factors \cup {r.crit},
     raise |-> acc.raise \/ r.raise]

\* one pass of `for attr, (value, confidence) in answers.items()`
LoopStep(specs, answers, q, acc) ==
    IF ~is_scored(answers, q.attribute) THEN acc
    ELSE The({Accumulate(acc, q.weight * answers[q.attribute][2], r) :
                 r \in {attr_result(specs, q.attribute, answers[q.attribute][1])}})

RECURSIVE ScoreLoop(_, _, _, _)
ScoreLoop(specs, answers, i, acc) ==
    IF i > Len(all_questions) THEN acc
    ELSE The({ScoreLoop(specs, answers, i + 1, next) :
                 next \in {LoopStep(specs, answers, all_questions[i], acc)}})

\* the score from the accumulators of the loop:
\* adjusted_score = max(10.0, 100.0 - (total_weight - total_weighted_score) * 1.2)
\* in 1/1000, then bonus, penalty and the clamp to [min_score, 100]
final_score(specs, answers, acc, both) ==
    IF acc.raise THEN RAISED
    ELSE IF acc.total_weight = 0 THEN no_weight_score
    ELSE IF both /\ material_inconsistent(specs, answers) THEN material_mismatch_score
    ELSE Max(min_score(answers),
             capped_product(
                 Max(10000, 100000 - 3 * (20 * acc.total_weight - acc.total_weighted_score))
                     * (IF both THEN material_bonus(specs, answers) ELSE 10),
                 IF acc.factors # {} THEN penalty_factor(acc.factors) ELSE 400))

calculate_connector_score(specs, answers) ==
    The({final_score(specs, answers, acc,
                     {"housing_material", "location"} \subseteq DOMAIN answers) :
            acc \in {ScoreLoop(specs, answers, 1, LoopStart)}})

----------------------------------------------------------------------------
(* _aggressive_fallback_parse: the parser of an answer after repeated failures *)

\* the character "°" of the temperature pattern
DegreeSign == "deg"

\* \d+ from position i of s: the last position of the run of digits
DigitsEnd(s, i) ==
    CHOOSE j \in i..Len(s) :
        (\A k \in i..j : IsDigit(s[k])) /\ (j = Len(s) \/ ~IsDigit(s[j + 1]))

\* \d+(?:\.\d+)? from position i of s: the last position of the number
NumberEnd(s, i) ==
    The({IF j + 2 <= Len(s) /\ s[j + 1] = "." /\ IsDigit(s[j + 2])
         THEN DigitsEnd(s, j + 2) ELSE j : j \in {DigitsEnd(s, i)}})

\* \s* after position j of s: the first position that holds no blank
SpacesEnd(s, j) ==
    CHOOSE p \in (j + 1)..(Len(s) + 1) :
        (\A k \in (j + 1)..(p - 1) : s[k] = " ") /\ (p = Len(s) + 1 \/ s[p] # " ")

\* s[p:].startswith(sub)
StartsAt(sub, s, p) == p + Len(sub) - 1 <= Len(s) /\ SubSeq(s, p, p + Len(sub) - 1) = sub

\* the pattern (\d+(?:\.\d+)?)\s*(?:u1|u2|...) matches s from position i.
\* No unit starts with a digit, a dot or a blank, so the greedy match is the
\* only one
MatchesAt(s, i, units) ==
    IsDigit(s[i]) /\ \E u \in units : StartsAt(u, s, SpacesEnd(s, NumberEnd(s, i)))

\* float(t) in hundredths of a string of digits with an optional fraction
\* (of at most two digits)
FloatOf(t) ==
    IF \E d \in 1..Len(t) : t[d] = "."
    THEN The({100 * DigitsValue(SubSeq(t, 1, d - 1))
                  + (100 * DigitsValue(SubSeq(t, d + 1, Len(t)))) \div (10 ^ (Len(t) - d)) :
                 d \in {CHOOSE d \in 1..Len(t) : t[d] = "."}})
    ELSE 100 * DigitsValue(t)

\* re.search of the pattern in s: group 1 of the leftmost match as a float
number_search(s, units) ==
    IF \E i \in 1..Len(s) : MatchesAt(s, i, units)
    THEN The({[found |-> TRUE, group1 |-> FloatOf(SubSeq(s, i, NumberEnd(s, i)))] :
                 i \in {CHOOSE i \in 1..Len(s) :
                           MatchesAt(s, i, units) /\ \A h \in 1..(i - 1) : ~MatchesAt(s, h, units)}})
    ELSE [found |-> FALSE, group1 |-> 0]

\* (?:mm|millimeters?)
pitch_units == {<<"m","m">>,
     <<"m","i","l","l","i","m","e","t","e","r">>}

\* (?:c|celsius|°c|degrees?)
temp_units == {<<"c">>,
     <<"c","e","l","s","i","u","s">>,
     <<DegreeSign,"c">>,
     <<"d","e","g","r","e","e">>}

\* common_pitches = [1.0, 1.27, 2.0], in hundredths
common_pitches == <<100, 127, 200>>

Distance(x, y) == IF x >= y THEN x - y ELSE y - x

\* min(common_pitches, key=lambda x: abs(x - pitch)): the first of the nearest
closest_pitch(pitch) ==
    common_pitches[CHOOSE i \in 1..Len(common_pitches) :
        /\ \A h \in 1..Len(common_pitches) :
              Distance(common_pitches[i], pitch) <= Distance(common_pitches[h], pitch)
        /\ \A h \in 1..(i - 1) :
              Distance(common_pitches[h], pitch) > Distance(common_pitches[i], pitch)]

preference_terms == {<<"p","r","e","f","e","r">>,
     <<"p","r","e","f","e","r","a","b","l","e">>,
     <<"i","d","e","a","l","l","y">>,
     <<"b","e","t","t","e","r">>,
     <<"i","f"," ","p","o","s","s","i","b","l","e">>,
     <<"w","o","u","l","d"," ","l","i","k","e">>}

\* the words that stand for a metal housing
metal_words == {<<"m","e","t","a","l">>,
     <<"m","e","t","a","l","l","i","c">>,
     <<"a","l","u","m","i","n">>,
     <<"s","t","e","e","l">>,
     <<"e","m","i">>,
     <<"s","h","i","e","l","d">>}

\* default_values of _aggressive_fallback_parse
default_values ==
    [pitch_size |-> FloatV(200), housing_material |-> StrV(S_plastic),
     right_angle |-> BoolV(TRUE), pin_count |-> NumV(20), max_current |-> FloatV(500),
     temp_range |-> FloatV(8500), connection_type |-> StrV(S_PCB_to_PCB)]

\* what the parser returns: value, confidence (in twentieths) and the
\* reasoning, named by its text without the value and the " (as preference)"
\* it may end with
Parsed(value, confidence, reasoning) ==
    [value |-> value, confidence |-> confidence, reasoning |-> reasoning]

\* the end of _aggressive_fallback_parse, reached by every question but
\* housing_material when nothing was returned before
aggressive_default(attribute) ==
    IF attribute \in DOMAIN default_values
    THEN Parsed(default_values[attribute], 6, "Used default value after multiple parse failures")
    ELSE Parsed(NoneV, 0, "Could not determine a value even with aggressive fallback")

\* the pitch_size branch for the lower-cased response
aggressive_pitch(low) ==
    IF number_search(low, pitch_units).found
    THEN Parsed(FloatV(closest_pitch(number_search(low, pitch_units).group1)), 12,
                "Approximated to standard pitch size")
    ELSE IF Contains(<<"1","m","m">>, low) \/ Contains(<<"1"," ","m","m">>, low)
    THEN Parsed(FloatV(100), 12, "Matched '1mm' in response")
    ELSE IF Contains(<<"1",".","2","7","m","m">>, low) \/ Contains(<<"1",".","2","7"," ","m","m">>, low)
    THEN Parsed(FloatV(127), 12, "Matched '1.27mm' in response")
    ELSE IF Contains(<<"2","m","m">>, low) \/ Contains(<<"2"," ","m","m">>, low)
    THEN Parsed(FloatV(200), 12, "Matched '2mm' in response")
    ELSE aggressive_default("pitch_size")

\* the housing_material branch: it returns in both arms, so the default of
\* default_values is never used for this question
aggressive_housing(low) ==
    IF \E word \in metal_words : Contains(word, low)
    THEN Parsed(StrV(S_metal),
                IF \E term \in preference_terms : Contains(term, low) THEN 17 ELSE 19,
                "Matched metal-related terms")
    ELSE Parsed(StrV(S_plastic),
                IF \E term \in preference_terms : Contains(term, low) THEN 17 ELSE 19,
                "Defaulted to plastic as no metal indicators found")

\* the temp_range branch
aggressive_temp(low) ==
    IF number_search(low, temp_units).found
    THEN Parsed(FloatV(number_search(low, temp_units).group1), 12, "Extracted temperature")
    ELSE aggressive_default("temp_range")

\* _aggressive_fallback_parse(response, question), the question given by its
\* attribute
_aggressive_fallback_parse(response, attribute) ==
    CASE attribute = "pitch_size"       -> aggressive_pitch(Lower(response))
      [] attribute = "housing_material" -> aggressive_housing(Lower(response))
      [] attribute = "temp_range"       -> aggressive_temp(Lower(response))
      [] OTHER                          -> aggressive_default(attribute)

----------------------------------------------------------------------------
(* State *)

VARIABLES
    \* test_calculate_connector_score: the local dict `answers` it builds and
    \* the scores its calculate_connector_score calls returned for it
    score_args,
    score_result,
    \* LLMConnectorSelector fields of the session's selector
    answers,
    asked_questions,
    confidence_scores,
    current_question,
    question_history,
    parse_failures,
    \* session_mapping[session_id]["connector_selector"]: "none" or "live"
    selector,
    \* what the last call returned to connector_service
    result,
    \* app.main.session_mapping as app.api.routes sees it: session id -> chat id
    session_mapping,
    \* the event app.api.dependencies.startup_complete
    startup_complete,
    \* the HTTP response to the last request
    response,
    \* test_normalize_awg_value: the argument and what the method of the
    \* selector and the helper of app.utils returned for it
    awg_arg,
    awg_returned,
    \* a call of _aggressive_fallback_parse on its own: the response and the
    \* attribute of the question passed, and what it returned
    parse_args,
    parse_returned,
    \* connector_service: session_mapping[session_id]["connector_selector"] of
    \* one session (0 for None, else the number of a selector created)
    connector_selector,
    \* the LLMConnectorSelector objects created for the session, each with
    \* whether its current_question is set
    selectors,
    \* the calls of generate_connector_selection for the session: where each
    \* stands, its local `selector` and what it yielded
    requests

score_vars == <<score_args, score_result>>

session_vars == <<answers, asked_questions, confidence_scores, current_question,
                  question_history, parse_failures, selector, result>>

api_vars == <<session_mapping, startup_complete, response>>

awg_vars == <<awg_arg, awg_returned>>

parse_vars == <<parse_args, parse_returned>>

service_vars == <<connector_selector, selectors, requests>>

vars == <<score_args, score_result, answers, asked_questions, confidence_scores,
          current_question, question_history, parse_failures, selector, result,
          session_mapping, startup_complete, response, awg_arg, awg_returned,
          parse_args, parse_returned, connector_selector, selectors, requests>>

\* no request was made yet
NoResponse == [endpoint |-> "none", session_id |-> 0, message |-> FALSE, status_code |-> 0]

\* main.py: session_mapping = {}; dependencies.py: startup_complete = threading.Event()
ApiInit ==
    /\ session_mapping = <<>>
    /\ startup_complete = FALSE
    /\ response = NoResponse

\* no call of _aggressive_fallback_parse on its own
ParseIdle ==
    /\ parse_args = [response |-> <<>>, attribute |-> "pitch_size"]
    /\ parse_returned = _aggressive_fallback_parse(<<>>, "pitch_size")

\* a session without selector and no request for it yet
ServiceIdle ==
    /\ connector_selector = 0
    /\ selectors = <<>>
    /\ requests = <<>>

\* the method and the helper called with v
BothNormalized(v) == [method |-> normalize_awg_value(v), helper |-> helpers_normalize_awg_value(v)]

\* no call of the tests' normalize_awg_value yet
AwgIdle ==
    /\ awg_arg = NoneV
    /\ awg_returned = BothNormalized(NoneV)

\* an empty dict
EmptyDict == <<>>

\* d[key] = entry
DictSet(d, key, entry) ==
    [x \in (DOMAIN d) \cup {key} |-> IF x = key THEN entry ELSE d[x]]

\* del d[key]
DictDel(d, key) == [x \in (DOMAIN d) \ {key} |-> d[x]]

\* current_question is None
NoQuestion == "none"

\* the fields __init__ sets (lines 501-507)
SelectorInit ==
    /\ answers = EmptyDict
    /\ asked_questions = {}
    /\ confidence_scores = [c \in ConnectorSet |-> 0]
    /\ current_question = NoQuestion
    /\ question_history = <<>>
    /\ parse_failures = 0

\* no call has returned yet
NoResult ==
    [status |-> "none", connector |-> "none", confidence |-> "none",
     question |-> NoQuestion, restarted |-> FALSE,
     via |-> "none", low |-> FALSE, grounds |-> {}, parser |-> "none"]

----------------------------------------------------------------------------
(* The scoring function on its own: the dict test_calculate_connector_score  *)
(* builds, changes and scores.                                               *)

\* number of entries the scored dict may hold
MaxAnswers == 3

\* the (value, confidence) pairs tried for each key of the dict
ScoreEntries(attr) ==
    CASE attr = "connection_types" ->
            {<<StrV(S_PCB_to_Cable), 18>>, <<StrV(S_PCB_to_PCB), 18>>}
      [] attr = "location" ->
            {<<StrV(S_internal), 18>>, <<StrV(S_external), 18>>, <<NoneV, 0>>}
      [] attr = "housing_material" ->
            {<<StrV(S_plastic), 18>>, <<StrV(S_metal), 18>>, <<StrV(S_aluminum), 18>>,
             <<NoneV, 0>>}
      [] attr = "mixed_power_signal" ->
            {<<BoolV(FALSE), 16>>, <<BoolV(TRUE), 16>>}
      [] attr = "pin_count" ->
            {<<NumV(50), 18>>, <<NumV(51), 18>>, <<NumV(60), 18>>,
             <<NumV(61), 18>>, <<NumV(120), 18>>, <<NumV(121), 18>>}
      [] attr = "height_requirement" ->
            {<<NumV(400), 18>>, <<NumV(100), 18>>}
      [] attr = "pitch_size" ->
            {<<NumV(200), 18>>, <<NumV(100), 20>>, <<NumV(127), 18>>}
      [] attr = "right_angle" ->
            {<<BoolV(TRUE), 18>>, <<BoolV(FALSE), 18>>}
      [] attr = "temp_range" ->
            {<<NumV(85), 18>>, <<NumV(215), 18>>}
      [] attr = "max_current" ->
            {<<NumV(3), 18>>}
      [] attr = "wire_gauge" ->
            {<<NumV(26), 18>>, <<NumV(22), 18>>,
             <<StrV(Awg("2", "4")), 18>>, <<StrV(<<"t","h","i","c","k">>), 18>>}
      [] OTHER ->
            {<<BoolV(TRUE), 18>>}

\* the keys of the scored dict: the question attributes and emi_protection,
\* which the opening message may add and no question carries
ScoreKeys == QuestionAttrs \cup {"emi_protection"}

ScoreAll(args) == [c \in ConnectorSet |-> calculate_connector_score(connectors[c], args)]

ScoreInit ==
    /\ score_args = EmptyDict
    /\ score_result = ScoreAll(EmptyDict)
    /\ SelectorInit
    /\ selector = "none"
    /\ result = NoResult
    /\ ApiInit
    /\ ParseIdle
    /\ ServiceIdle
    /\ AwgIdle

\* position of a key in the dict literal the test writes: question order,
\* emi_protection last
KeyOrder(attr) == IF attr \in QuestionAttrs THEN QuestionOf(attr).order ELSE Len(all_questions) + 1

\* answers[attr] = (value, confidence), then the scores are calculated again.
\* The dict is filled in key order; the housing requirement is the entry the
\* test sets again afterwards, so it may be set or changed at any point.
SetAnswer(attr, entry) ==
    /\ Cardinality((DOMAIN score_args) \cup {attr}) <= MaxAnswers
    /\ \/ attr = "housing_material"
       \/ \A a \in DOMAIN score_args : KeyOrder(a) < KeyOrder(attr)
    /\ score_args' = DictSet(score_args, attr, entry)
    /\ score_result' = ScoreAll(score_args')
    /\ UNCHANGED <<session_vars, api_vars, awg_vars, parse_vars, service_vars>>

ScoreNext == \E attr \in ScoreKeys : \E entry \in ScoreEntries(attr) : SetAnswer(attr, entry)

SpecScore == ScoreInit /\ [][ScoreNext]_vars

----------------------------------------------------------------------------
(* Properties of the scoring function, checked under SpecScore *)

PlasticConnectors == {c \in ConnectorSet : connectors[c].housing_material = S_plastic}

\* the housing answer requires metal: it normalises to "metal" in the
\* per-attribute comparison
RequiresMetal(entry) == entry[1].k = "str" /\ Lower(entry[1].s) \in metal_names

\* no answer carries weight: every entry is None-valued, has confidence 0 or
\* belongs to no question
NoWeightedAnswer(args) == \A a \in QuestionAttrs : ~is_scored(args, a)

\* C1 as stated: for every candidate and every answer set (the empty set and
\* sets holding both housing_material and location included) the score lies
\* in [min_score(A), 100], min_score being 20 under 3 answers and 5 otherwise.
C1_ScoreInRange ==
    \A c \in ConnectorSet :
        /\ score_result[c] >= (IF Cardinality(DOMAIN score_args) < 3 THEN 20 * SCALE ELSE 5 * SCALE)
        /\ score_result[c] <= 100 * SCALE

\* C1 amended: the score is exactly 0 or lies in [min_score(A), 100]; it is 0
\* only when no answer carries weight or when housing_material and location
\* are both answered and the housing requirement and the candidate's housing
\* fall in different buckets.
C1_ScoreInRangeOrZero ==
    \A c \in ConnectorSet :
        \/ /\ score_result[c] = 0
           /\ \/ NoWeightedAnswer(score_args)
              \/ /\ {"housing_material", "location"} \subseteq DOMAIN score_args
                 /\ (score_args["housing_material"][1] \in {StrV(S_metal), StrV(S_metallic)})
                        # (connectors[c].housing_material = S_metal)
        \/ /\ score_result[c] >= (IF Cardinality(DOMAIN score_args) < 3 THEN 20 * SCALE ELSE 5 * SCALE)
           /\ score_result[c] <= 100 * SCALE

\* three answers, housing and location among them: one candidate is zeroed
\* and another is scored inside the range
C1_Witness ==
    /\ Cardinality(DOMAIN score_args) = 3
    /\ {"housing_material", "location"} \subseteq DOMAIN score_args
    /\ \E c \in ConnectorSet : score_result[c] = 0
    /\ \E c \in ConnectorSet : score_result[c] >= 5 * SCALE /\ score_result[c] < 100 * SCALE

TestPlastic2 ==
    ("pitch_size" :> <<NumV(200), 18>>) @@ ("housing_material" :> <<StrV(S_plastic), 18>>)

TestPlastic3 == TestPlastic2 @@ ("mixed_power_signal" :> <<BoolV(FALSE), 16>>)

TestMetal2 ==
    ("pitch_size" :> <<NumV(200), 18>>) @@ ("housing_material" :> <<StrV(S_metal), 18>>)

TestMetal3 == TestMetal2 @@ ("mixed_power_signal" :> <<BoolV(FALSE), 16>>)

\* C3: with pitch 2.0 and plastic housing required (alone or with the test's
\* mixed_power_signal answer) CMM scores strictly higher than DMM.
C3_PlasticBeatsMetal ==
    score_args \in {TestPlastic2, TestPlastic3} => score_result["CMM"] > score_result["DMM"]

\* C4: changing the housing requirement from plastic to metal makes DMM score
\* strictly higher than CMM, and CMM's score strictly lower than before.
C4_MetalFlipsRanking ==
    [][ (\/ score_args = TestPlastic2 /\ score_args' = TestMetal2
         \/ score_args = TestPlastic3 /\ score_args' = TestMetal3)
        => /\ score_result'["DMM"] > score_result'["CMM"]
           /\ score_result'["CMM"] < score_result["CMM"] ]_vars

\* the test's answers after the change to metal, scored
C4_Witness ==
    /\ score_args \in {TestMetal2, TestMetal3}
    /\ score_result["DMM"] = 100 * SCALE
    /\ score_result["CMM"] < 100 * SCALE

\* a metal-requiring housing answer is added to a dict that had none
AddsMetalRequirement ==
    /\ "housing_material" \notin DOMAIN score_args
    /\ "housing_material" \in DOMAIN score_args'
    /\ RequiresMetal(score_args'["housing_material"])

\* C5 as stated: adding a housing answer that requires metal makes the score
\* of every plastic candidate strictly lower, or exactly 0.
C5_MetalStrictlyLowers ==
    [][ AddsMetalRequirement =>
          \A c \in PlasticConnectors :
              score_result'[c] < score_result[c] \/ score_result'[c] = 0 ]_vars

\* C5 amended: the new score is strictly lower, or exactly 0, or equal to the
\* old one with both held at the same floor (20 or 5); the one case in which
\* it is higher is an A in which no answer carries weight, whose score is the
\* 0 of the empty-weight return.
C5_MetalNeverRaises ==
    [][ AddsMetalRequirement =>
          \A c \in PlasticConnectors :
              \/ score_result'[c] < score_result[c]
              \/ score_result'[c] = 0
              \/ /\ score_result'[c] = score_result[c]
                 /\ score_result'[c] \in {20 * SCALE, 5 * SCALE}
              \/ /\ NoWeightedAnswer(score_args)
                 /\ score_result[c] = 0 ]_vars

\* a metal requirement next to two weighted answers, and a plastic candidate
\* that is scored below 100 and not zeroed
C5_Witness ==
    /\ Cardinality(DOMAIN score_args) = 3
    /\ "housing_material" \in DOMAIN score_args
    /\ RequiresMetal(score_args["housing_material"])
    /\ \A a \in DOMAIN score_args : is_scored(score_args, a)
    /\ \E c \in PlasticConnectors : score_result[c] > 5 * SCALE /\ score_result[c] < 100 * SCALE

\* C8: a pin count equal to a candidate's max_pins has a pin-count attribute
\* score of at least 0.8 and flags nothing; max_pins + 1 scores 0 and flags a
\* critical mismatch, which the scoring loop carries to the penalty.
C8_PinBoundary ==
    \A c \in ConnectorSet :
        is_scored(score_args, "pin_count") =>
            LET v == score_args["pin_count"][1]
                r == attr_result(connectors[c], "pin_count", v)
                acc == ScoreLoop(connectors[c], score_args, 1, LoopStart)
            IN  /\ v = NumV(connectors[c].max_pins) =>
                       r.score >= 16 /\ r.crit = "" /\ "pin_max" \notin acc.factors
                /\ v = NumV(connectors[c].max_pins + 1) =>
                       r.score = 0 /\ r.crit = "pin_max" /\ "pin_max" \in acc.factors

\* 61 pins requested: one above EMM's maximum, inside CMM's and DMM's range
C8_Witness ==
    /\ is_scored(score_args, "pin_count")
    /\ score_args["pin_count"][1] = NumV(connectors["EMM"].max_pins + 1)
    /\ Cardinality(DOMAIN score_args) >= 2
    /\ score_result["EMM"] < score_result["CMM"]

\* the wire gauge answer carries a gauge the candidate does not list
GaugeUnsupported(c, args) ==
    /\ is_scored(args, "wire_gauge")
    /\ normalize_awg_value(args["wire_gauge"][1]).k = "num"
    /\ \A i \in 1..Len(connectors[c].wire_gauge) :
          connectors[c].wire_gauge[i] #
              S_AWG \o <<DigitChars[(normalize_awg_value(args["wire_gauge"][1]).n \div 10) + 1],
                         DigitChars[(normalize_awg_value(args["wire_gauge"][1]).n % 10) + 1]>>

\* C9: a gauge absent from the candidate's list gives the wire-gauge attribute
\* score 0.0 and a critical mismatch, which reaches the penalty, whatever the
\* other answers are.
C9_GaugeMismatchCritical ==
    \A c \in ConnectorSet :
        GaugeUnsupported(c, score_args) =>
            LET r == attr_result(connectors[c], "wire_gauge", score_args["wire_gauge"][1])
                acc == ScoreLoop(connectors[c], score_args, 1, LoopStart)
            IN  /\ r.score = 0 /\ r.crit = "awg" /\ ~r.skip
                /\ "awg" \in acc.factors
                /\ penalty_factor(acc.factors) <= 308

\* AWG22 asked of AMM next to a pitch of 1.0 mm, which AMM matches exactly
C9_Witness ==
    /\ GaugeUnsupported("AMM", score_args)
    /\ is_scored(score_args, "pitch_size")
    /\ score_args["pitch_size"][1] = NumV(connectors["AMM"].pitch_size)
    /\ DOMAIN score_args = {"pitch_size", "wire_gauge"}
    /\ score_result["AMM"] > 0

\* the answer to attr asks for a capability that candidate c lacks
CapabilityMissing(c, attr, args) ==
    /\ is_scored(args, attr)
    /\ Truthy(args[attr][1])
    /\ ~connectors[c][attr]

\* C27 as stated: for mixed_power_signal and right_angle alike, an answer
\* that asks for the capability of a candidate that lacks it scores at most
\* 0.3 and is a critical mismatch, which reaches the penalty
C27_MissingCapabilityCritical ==
    \A c \in ConnectorSet : \A attr \in {"mixed_power_signal", "right_angle"} :
        CapabilityMissing(c, attr, score_args) =>
            LET r == attr_result(connectors[c], attr, score_args[attr][1])
                acc == ScoreLoop(connectors[c], score_args, 1, LoopStart)
            IN  /\ r.score <= 6 /\ r.crit # "" /\ ~r.skip
                /\ r.crit \in acc.factors

\* C27, amended: a missing mixed_power_signal capability scores 0.1 and is a
\* critical mismatch that halves the penalty factor; a missing right_angle
\* capability scores 0.3 and is no critical mismatch: the factors, and so
\* the penalty, are those of the other answers
C27_OnlyMixedPowerCritical ==
    \A c \in ConnectorSet :
        /\ CapabilityMissing(c, "mixed_power_signal", score_args) =>
               LET r == attr_result(connectors[c], "mixed_power_signal",
                                    score_args["mixed_power_signal"][1])
                   acc == ScoreLoop(connectors[c], score_args, 1, LoopStart)
               IN  /\ r.score = 2 /\ r.crit = "mixed" /\ ~r.skip
                   /\ "mixed" \in acc.factors
                   /\ penalty_factor(acc.factors) <= 154
        /\ CapabilityMissing(c, "right_angle", score_args) =>
               LET r == attr_result(connectors[c], "right_angle", score_args["right_angle"][1])
               IN  /\ r.score = 6 /\ r.crit = "" /\ ~r.skip
                   /\ ScoreLoop(connectors[c], score_args, 1, LoopStart).factors
                          = ScoreLoop(connectors[c], DictDel(score_args, "right_angle"), 1,
                                      LoopStart).factors

\* mixed power and signal asked of AMM, which has no such contacts, next to a
\* pitch AMM matches
C27_Witness ==
    /\ CapabilityMissing("AMM", "mixed_power_signal", score_args)
    /\ is_scored(score_args, "pitch_size")
    /\ score_args["pitch_size"][1] = NumV(connectors["AMM"].pitch_size)
    /\ score_result["AMM"] > 0

\* a right-angle connector asked of AMM, which has none, and no critical
\* mismatch among the answers
C27_WitnessRightAngle ==
    /\ CapabilityMissing("AMM", "right_angle", score_args)
    /\ ScoreLoop(connectors["AMM"], score_args, 1, LoopStart).factors = {}
    /\ score_result["AMM"] > 0

\* the answers with the housing material replaced by name, at the same
\* confidence
WithHousing(args, name) ==
    DictSet(args, "housing_material", <<StrV(name), args["housing_material"][2]>>)

\* the housing answer is the string "metal"
MetalAnswered(args) ==
    "housing_material" \in DOMAIN args /\ args["housing_material"][1] = StrV(S_metal)

\* C28: with the housing material answered "metal", every candidate scores
\* the same when the answer is "aluminum", "steel" or "metallic" instead,
\* whatever the other answers, a location answer included
C28_MetalNamesScoreAlike ==
    MetalAnswered(score_args) =>
        \A name \in {S_aluminum, S_steel, S_metallic} : \A c \in ConnectorSet :
            calculate_connector_score(connectors[c], WithHousing(score_args, name))
                = score_result[c]

\* the part of C28 the code keeps: the same without a location answer
C28_AlikeWithoutLocation ==
    (MetalAnswered(score_args) /\ "location" \notin DOMAIN score_args) =>
        \A name \in {S_aluminum, S_steel, S_metallic} : \A c \in ConnectorSet :
            calculate_connector_score(connectors[c], WithHousing(score_args, name))
                = score_result[c]

\* metal was answered next to other answers, without a location
C28_WitnessWithoutLocation ==
    /\ MetalAnswered(score_args) /\ "location" \notin DOMAIN score_args
    /\ Cardinality(DOMAIN score_args) >= 2
    /\ score_result["DMM"] > score_result["CMM"]

\* with a location answer, "aluminum" leaves the metal candidate at 0 and the
\* plastic candidates above it
C28_AluminumZeroesMetal ==
    (MetalAnswered(score_args) /\ is_scored(score_args, "location")) =>
        /\ calculate_connector_score(connectors["DMM"], WithHousing(score_args, S_aluminum)) = 0
        /\ \A c \in PlasticConnectors :
               calculate_connector_score(connectors[c], WithHousing(score_args, S_aluminum)) > 0

\* metal and a location were answered
C28_WitnessLocation ==
    /\ MetalAnswered(score_args) /\ is_scored(score_args, "location")
    /\ score_result["DMM"] > 0

\* a weighted housing answer that requires metal
MetalRequired(args) ==
    is_scored(args, "housing_material") /\ RequiresMetal(args["housing_material"])

\* the bonus block compares the materials and sees a metal requirement: a
\* location entry is present and the housing answer reads "metal" or
\* "metallic"
BonusBlockSeesMetal(args) ==
    /\ "location" \in DOMAIN args
    /\ args["housing_material"][1].s \in {S_metal, S_metallic}

\* C29: whenever the answers require metal housing, every plastic-only
\* candidate scores exactly 0, with or without a location answer and whatever
\* the number of answers
C29_MetalRequiredZeroesPlastic ==
    MetalRequired(score_args) => \A c \in PlasticConnectors : score_result[c] = 0

\* C29 amended: a plastic-only candidate scores exactly 0 under a metal
\* requirement when a location entry is present and the housing answer reads
\* "metal" or "metallic"; in every other case it is not 0 and scores at least
\* the floor (20 under 3 answers, 5 otherwise)
C29_ZeroOnlyInBonusBlock ==
    MetalRequired(score_args) =>
        \A c \in PlasticConnectors :
            IF BonusBlockSeesMetal(score_args)
            THEN score_result[c] = 0
            ELSE score_result[c] >= min_score(score_args)

\* metal is required next to a location answer: the plastic candidates are
\* at 0 and the metal candidate is not
C29_Witness ==
    /\ MetalRequired(score_args) /\ BonusBlockSeesMetal(score_args)
    /\ is_scored(score_args, "location")
    /\ \A c \in PlasticConnectors : score_result[c] = 0
    /\ score_result["DMM"] > 0

\* metal is required without a location answer, among 3 answers: a plastic
\* candidate scores above its floor of 5
C29_WitnessNoLocation ==
    /\ MetalRequired(score_args) /\ "location" \notin DOMAIN score_args
    /\ Cardinality(DOMAIN score_args) = 3
    /\ \E c \in PlasticConnectors : score_result[c] > 5 * SCALE

\* "aluminum" is required next to a location answer: the plastic candidates
\* are not at 0
C29_WitnessAluminum ==
    /\ MetalRequired(score_args) /\ is_scored(score_args, "location")
    /\ score_args["housing_material"][1] = StrV(S_aluminum)
    /\ \A c \in PlasticConnectors : score_result[c] >= 5 * SCALE

\* the step adds attr to the scored dict as an explicit "don't know": value
\* None, confidence 0
AddsUnknown(attr) ==
    /\ attr \notin DOMAIN score_args
    /\ score_args' = DictSet(score_args, attr, <<NoneV, 0>>)

\* C36: recording (None, 0) for an attribute leaves the score of every
\* candidate as it was without that entry
C36_UnknownKeepsScores ==
    [][ (\E attr \in ScoreKeys : AddsUnknown(attr)) => score_result' = score_result ]_vars

\* what the code keeps of C36: the score of a candidate changes with such an
\* entry only when the entry is the third of the dict and the candidate was
\* held at the floor of 20, or when the entry completes the pair of
\* housing_material and location that the bonus block looks for
C36_UnknownChangesFloorOrBonus ==
    [][ \A attr \in ScoreKeys : AddsUnknown(attr) =>
            \A c \in ConnectorSet :
                \/ score_result'[c] = score_result[c]
                \/ /\ Cardinality(DOMAIN score_args') = 3
                   /\ score_result[c] = 20 * SCALE
                   /\ score_result'[c] >= 5 * SCALE /\ score_result'[c] < 20 * SCALE
                \/ /\ attr \in {"housing_material", "location"}
                   /\ {"housing_material", "location"} \subseteq DOMAIN score_args' ]_vars

\* an unknown housing material next to a weighted location: the metal
\* candidate is at 0 and a plastic candidate is not
C36_WitnessUnknownHousing ==
    /\ "housing_material" \in DOMAIN score_args
    /\ score_args["housing_material"] = <<NoneV, 0>>
    /\ is_scored(score_args, "location")
    /\ score_result["DMM"] = 0 /\ score_result["AMM"] > 0

\* a weighted housing answer that requires plastic
PlasticRequired(args) ==
    /\ is_scored(args, "housing_material")
    /\ args["housing_material"][1] = StrV(S_plastic)

\* the housing comparison flags no critical mismatch for the metal candidate
NoHousingMismatch(args) ==
    housing_material_score(connectors["DMM"], args["housing_material"][1]).crit = ""

\* C37: for every answer set that requires plastic, with or without a
\* location entry, the metal candidate DMM gets no critical mismatch for
\* the housing and its score is not 0
C37_PlasticNeverDisqualifies ==
    PlasticRequired(score_args) =>
        NoHousingMismatch(score_args) /\ score_result["DMM"] > 0

\* what the code keeps of C37: no critical mismatch is flagged, and without
\* a location entry the score is at least the floor; with a location entry
\* the score is 0
C37_ZeroWithLocation ==
    PlasticRequired(score_args) =>
        /\ NoHousingMismatch(score_args)
        /\ IF "location" \in DOMAIN score_args
           THEN score_result["DMM"] = 0
           ELSE score_result["DMM"] >= min_score(score_args)

\* plastic is required without a location entry and DMM scores above the
\* floor
C37_WitnessNoLocation ==
    /\ PlasticRequired(score_args) /\ "location" \notin DOMAIN score_args
    /\ Cardinality(DOMAIN score_args) = 3
    /\ score_result["DMM"] > 5 * SCALE

\* plastic is required next to a weighted location and DMM is at 0
C37_WitnessLocation ==
    /\ PlasticRequired(score_args) /\ is_scored(score_args, "location")
    /\ score_result["DMM"] = 0

----------------------------------------------------------------------------
(* The dialogue: one session's LLMConnectorSelector, driven by               *)
(* generate_connector_selection.  The operators below work on a record of    *)
(* the selector's fields and return the record the code leaves behind.       *)

\* the selector's fields as one record
Self ==
    [answers |-> answers, asked_questions |-> asked_questions,
     confidence_scores |-> confidence_scores, current_question |-> current_question,
     question_history |-> question_history, parse_failures |-> parse_failures]

\* LLMConnectorSelector(): the fields of a new selector
NewSelector ==
    [answers |-> EmptyDict, asked_questions |-> {},
     confidence_scores |-> [c \in ConnectorSet |-> 0], current_question |-> NoQuestion,
     question_history |-> <<>>, parse_failures |-> 0]

\* what a call returns, as far as connector_service and the caller read it:
\* status, the recommended connector ("contact" for the escalation), the kind
\* of its confidence, the attribute of next_question, the restarted flag.
\* The other fields record how the call came to return it: the return
\* statement (via), whether the leading score was under the contact
\* threshold (low), the grounds of an early recommendation, and the parser
\* that read the input: "extraction" and "output_parser" when the LLM's
\* answer was read, else the local parser by its name
MkResult(status, connector, confidence, question, restarted) ==
    [status |-> status, connector |-> connector, confidence |-> confidence,
     question |-> question, restarted |-> restarted,
     via |-> "none", low |-> FALSE, grounds |-> {}, parser |-> "none"]

\* res, returned by the return statement named via
Via(res, via) == [res EXCEPT !.via = via]

\* res, returned by a call whose input was read by parser
ParsedBy(res, parser) == [res EXCEPT !.parser = parser]

\* the parsers that read the input when the interpretation by the LLM fails
FallbackParsers == {"_fallback_parse", "_simple_fallback_parse", "_aggressive_fallback_parse"}

S_pcb == <<"p", "c", "b">>

pcb_to_pcb_names == {S_pcb_to_pcb, S_pcb_to_pcb_sp, S_board_to_board}

\* str.replace(old, new) for single characters
ReplaceChar(s, old, new) == [i \in 1..Len(s) |-> IF s[i] = old THEN new ELSE s[i]]

\* s.split(ch, 1): ok is FALSE when s holds no ch (the list has one element,
\* so [1] raises IndexError), rest is the second element otherwise
SplitOnce(s, ch) ==
    LET hits == {i \in 1..Len(s) : s[i] = ch}
    IN  IF hits = {} THEN [ok |-> FALSE, rest |-> <<>>]
        ELSE [ok |-> TRUE,
              rest |-> SubSeq(s, (CHOOSE i \in hits : \A j \in hits : i <= j) + 1, Len(s))]

\* variant: no default is stored
autofilled_none(s) == s

\* the selector after the defaults select_next_question stores for a
\* PCB-to-PCB connection: wire_gauge and location, each only if not answered
autofilled(s) ==
    [s EXCEPT
        !.answers =
            [a \in (DOMAIN @) \cup {"wire_gauge", "location"} |->
                IF a \in DOMAIN @ THEN @[a]
                ELSE IF a = "wire_gauge" THEN <<NoneV, 0>>
                ELSE <<StrV(S_internal), 19>>],
        !.asked_questions = @ \cup ({"wire_gauge", "location"} \ DOMAIN s.answers)]

\* variant: the available question of the largest order
first_available_last(asked, questions_to_skip) ==
    LET available_questions ==
            {i \in 1..Len(all_questions) :
                /\ all_questions[i].attribute \notin asked
                /\ all_questions[i].attribute \notin questions_to_skip}
    IN  IF available_questions = {} THEN NoQuestion
        ELSE all_questions[CHOOSE i \in available_questions :
                 \A j \in available_questions :
                     all_questions[i].order >= all_questions[j].order].attribute

\* min(available_questions, key=order), NoQuestion for an empty list
first_available(asked, questions_to_skip) ==
    LET available_questions ==
            {i \in 1..Len(all_questions) :
                /\ all_questions[i].attribute \notin asked
                /\ all_questions[i].attribute \notin questions_to_skip}
    IN  IF available_questions = {} THEN NoQuestion
        ELSE all_questions[CHOOSE i \in available_questions :
                 \A j \in available_questions :
                     all_questions[i].order <= all_questions[j].order].attribute

\* variant: the standard selection whatever the height answer
pick_question_standard(s, questions_to_skip) ==
    first_available(s.asked_questions, questions_to_skip)

\* the question chosen once the defaults are stored: the pitch question
\* after an uncertain or missing height answer, else the first available
pick_question(s, questions_to_skip) ==
    IF /\ "height_requirement" \in s.asked_questions
       /\ \/ "height_requirement" \notin DOMAIN s.answers
          \/ s.answers["height_requirement"][2] < 10
       /\ "pitch_size" \notin s.asked_questions
    THEN "pitch_size"
    ELSE first_available(s.asked_questions, questions_to_skip)

\* select_next_question({}): q is the attribute of the question returned
\* (NoQuestion for None), raise the AttributeError of .lower() on a truthy
\* connection type that is not a string; s carries the stored defaults
select_next_question(s) ==
    The({IF Truthy(connection_type) /\ connection_type.k # "str"
         THEN [s |-> s, q |-> NoQuestion, raise |-> TRUE]
         ELSE IF connection_type.k = "str" /\ Lower(connection_type.s) \in pcb_to_pcb_names
         THEN The({[s |-> filled, q |-> pick_question(filled, {"wire_gauge", "location"}),
                    raise |-> FALSE] :
                      filled \in {autofilled(s)}})
         ELSE [s |-> s, q |-> pick_question(s, {}), raise |-> FALSE] :
            connection_type \in {IF "connection_types" \in DOMAIN s.answers
                                 THEN s.answers["connection_types"][1] ELSE NoneV}})

\* property_to_attribute of get_next_question, in the order of the dict
property_to_attribute ==
    << <<"pitch_size", "pitch_size">>, <<"pin_count", "pin_count">>,
       <<"max_current", "max_current">>, <<"temp_range", "temp_range">>,
       <<"emi_protection", "housing_material">>, <<"housing_material", "housing_material">>,
       <<"height_requirement", "height_requirement">>, <<"wire_gauge", "wire_gauge">>,
       <<"connector_orientation", "connector_orientation">>,
       <<"connection_type", "connection_types">>, <<"location", "location">>,
       <<"mixed_power_signal", "mixed_power_signal">> >>

\* the attributes get_next_question marks as asked: those whose property is
\* in answers with confidence above 0.7
skip_marked(s) ==
    {property_to_attribute[i][2] : i \in
        {j \in 1..Len(property_to_attribute) :
            /\ property_to_attribute[j][1] \in DOMAIN s.answers
            /\ s.answers[property_to_attribute[j][1]][2] > 14}}

\* the housing block of get_next_question: with housing_material and
\* emi_protection both answered, the housing question is marked as asked
\* when both are confident, and metal is stored when EMI protection is
\* required with confidence above 0.8
housing_from_emi(s) ==
    IF ~({"housing_material", "emi_protection"} \subseteq DOMAIN s.answers) THEN s
    ELSE IF s.answers["housing_material"][2] > 14 /\ s.answers["emi_protection"][2] > 14
    THEN [s EXCEPT !.asked_questions = @ \cup {"housing_material"}]
    ELSE IF s.answers["emi_protection"][1] = BoolV(TRUE) /\ s.answers["emi_protection"][2] > 16
    THEN [s EXCEPT !.answers = DictSet(@, "housing_material",
                                       <<StrV(S_metal), s.answers["emi_protection"][2]>>),
                   !.asked_questions = @ \cup {"housing_material"}]
    ELSE s

\* get_next_question: q is the attribute of the question returned
get_next_question(s) ==
    IF s.current_question # NoQuestion THEN [s |-> s, q |-> s.current_question]
    ELSE The({The({IF sel.raise THEN [s |-> marked, q |-> NoQuestion]
                   ELSE [s |-> [sel.s EXCEPT !.current_question = sel.q], q |-> sel.q] :
                      sel \in {select_next_question(marked)}}) :
                 marked \in {housing_from_emi([s EXCEPT !.asked_questions = @ \cup skip_marked(s)])}})

\* the order in which the items of the parsed opening message are visited:
\* the key order of the JSON object the extraction prompt asks for, with
\* housing_material next to emi_protection and connection_types next to
\* connection_type
ParsedOrder ==
    <<"pitch_size", "pin_count", "max_current", "temp_range", "emi_protection",
      "housing_material", "height_requirement", "wire_gauge", "right_angle",
      "connector_orientation", "connection_type", "connection_types",
      "mixed_power_signal", "location">>

\* confidence * 0.9 in twentieths; exact for the confidences 1.0 and 0.5 that
\* the wire gauge of an opening message carries here
nine_tenths(confidence) == (confidence * 9) \div 10

\* answers[attr] = entry; asked_questions.add(attr)
store(s, attr, entry) ==
    [s EXCEPT !.answers = DictSet(@, attr, entry), !.asked_questions = @ \cup {attr}]

\* a gauge that normalises implies a cable: PCB-to-Cable is stored unless a
\* connection type is known
infer_cable(s, confidence) ==
    IF "connection_types" \in DOMAIN s.answers \/ "connection_type" \in DOMAIN s.answers
    THEN s
    ELSE store(s, "connection_types", <<StrV(S_PCB_to_Cable), nine_tenths(confidence)>>)

\* one pass of `for attr, value in parsed.items()`: entry is
\* (value["value"], float(value["confidence"]))
absorb(s, attr, entry) ==
    IF entry[1].k = "none" THEN s
    ELSE IF attr # "wire_gauge" THEN store(s, attr, entry)
    ELSE The({IF awg_value.k = "none" THEN store(s, attr, entry)
              ELSE infer_cable(store(s, attr, <<awg_value, entry[2]>>), entry[2]) :
                 awg_value \in {normalize_awg_value(entry[1])}})

RECURSIVE absorb_all(_, _, _)
absorb_all(s, parsed, i) ==
    IF i > Len(ParsedOrder) THEN s
    ELSE IF ParsedOrder[i] \notin DOMAIN parsed THEN absorb_all(s, parsed, i + 1)
    ELSE The({absorb_all(next, parsed, i + 1) :
                 next \in {absorb(s, ParsedOrder[i], parsed[ParsedOrder[i]])}})

\* `not value`
NotV(v) == BoolV(~Truthy(v))

\* what a connection type of the opening message says: "pcb_to_pcb" when
\* "pcb" is in the normalised string and again after its first dash,
\* "raise" for the IndexError of split("-", 1)[1], "other" otherwise
connection_kind(conn_type_value) ==
    IF conn_type_value.k # "str" THEN "other"
    ELSE The({IF ~Contains(S_pcb, norm_conn_type) THEN "other"
              ELSE The({IF ~tail.ok THEN "raise"
                        ELSE IF Contains(S_pcb, tail.rest) THEN "pcb_to_pcb"
                        ELSE "other" :
                           tail \in {SplitOnce(norm_conn_type, "-")}}) :
                 norm_conn_type \in {ReplaceChar(Lower(conn_type_value.s), " ", "-")}})

\* right_angle = not connector_orientation, at its confidence; the
\* orientation entry is deleted
orientation_to_right_angle(s) ==
    [s EXCEPT !.answers =
        DictDel(DictSet(@, "right_angle",
                        <<NotV(@["connector_orientation"][1]), @["connector_orientation"][2]>>),
                "connector_orientation")]

\* a PCB-to-PCB connection type of the opening message is stored with the
\* internal location
store_pcb_to_pcb(s, confidence) ==
    [s EXCEPT !.answers = DictSet(DictSet(@, "connection_types",
                                          <<StrV(S_PCB_to_PCB), confidence>>),
                                  "location", <<StrV(S_internal), 19>>),
              !.asked_questions = @ \cup {"location"}]

\* variant: the orientation wins a tie of confidences
reconcile_orientation_first(s, parsed) ==
    IF {"right_angle", "connector_orientation"} \subseteq DOMAIN s.answers
    THEN [s |-> IF s.answers["right_angle"][2] > s.answers["connector_orientation"][2]
                THEN [s EXCEPT !.answers = DictDel(@, "connector_orientation")]
                ELSE orientation_to_right_angle(s),
          raise |-> FALSE]
    ELSE [s |-> s, raise |-> FALSE]

\* the reconciliation of right_angle, connector_orientation and
\* connection_type that follows the loop; raise is the IndexError of
\* split("-", 1)[1]
reconcile(s, parsed) ==
    IF {"right_angle", "connector_orientation"} \subseteq DOMAIN s.answers
    THEN [s |-> IF s.answers["right_angle"][2] >= s.answers["connector_orientation"][2]
                THEN [s EXCEPT !.answers = DictDel(@, "connector_orientation")]
                ELSE orientation_to_right_angle(s),
          raise |-> FALSE]
    ELSE IF "connection_type" \in DOMAIN parsed
    THEN The({[s |-> IF kind = "pcb_to_pcb"
                     THEN store_pcb_to_pcb(s, parsed["connection_type"][2]) ELSE s,
               raise |-> kind = "raise"] :
                 kind \in {connection_kind(parsed["connection_type"][1])}})
    ELSE IF "connector_orientation" \in DOMAIN s.answers
    THEN [s |-> orientation_to_right_angle(s), raise |-> FALSE]
    ELSE [s |-> s, raise |-> FALSE]

\* max(scores, key=lambda x: x[1]): the first connector, in dict order, that
\* holds the highest score
best_of(scores) ==
    connector_names[CHOOSE i \in 1..Len(connector_names) :
        /\ \A j \in 1..Len(connector_names) : scores[connector_names[j]] <= scores[connector_names[i]]
        /\ \A j \in 1..(i - 1) : scores[connector_names[j]] < scores[connector_names[i]]]

\* max(other_scores), given the best connector
max_other_of(scores, best_connector) ==
    CHOOSE x \in {scores[c] : c \in ConnectorSet \ {best_connector}} :
        \A c \in ConnectorSet \ {best_connector} : scores[c] <= x

\* the attributes whose value generate_recommendation converts with int()
\* or float()
reviewed_numbers == {"pin_count", "pitch_size", "max_current", "temp_range", "height_requirement"}

\* the review of the answers raises: a value that is not None and does not
\* convert to a number
review_raises(s) ==
    \E attr \in reviewed_numbers \cap DOMAIN s.answers :
        /\ s.answers[attr][1].k # "none"
        /\ ~ToNumber(s.answers[attr][1], 1).ok

\* max_confidence < 22
contact_threshold == 22

\* the recommendation for a best connector and its confidence: the error
\* recommendation when the review raises, the escalation to a human below
\* the threshold, the connector otherwise
recommend(s, best_connector, max_confidence) ==
    [(IF review_raises(s) THEN MkResult("complete", "CMM", "error", NoQuestion, FALSE)
      ELSE IF max_confidence < contact_threshold * SCALE
      THEN MkResult("complete", "contact", "insufficient", NoQuestion, FALSE)
      ELSE MkResult("complete", best_connector, "score", NoQuestion, FALSE))
     EXCEPT !.low = max_confidence < contact_threshold * SCALE]

\* generate_recommendation(best_connector, max_confidence); best_connector
\* "none" stands for the call without arguments, which takes the best of
\* confidence_scores
generate_recommendation(s, best_connector, max_confidence) ==
    IF best_connector # "none" THEN recommend(s, best_connector, max_confidence)
    ELSE The({recommend(s, best, s.confidence_scores[best]) :
                 best \in {best_of(s.confidence_scores)}})

\* the thresholds of the opening message's early recommendation
initial_best_score == 57

initial_score_gap == 25

\* the bonus of a connector named in the opening message
mention_bonus == 15

\* the thresholds of the early recommendation after an answer
early_best_score == 75

early_score_gap == 15

early_asked == 3

\* both critical attributes are in answers with confidence 0.7 or more
critical_attributes_met(s) ==
    \A attr \in {"mixed_power_signal", "housing_material"} :
        attr \in DOMAIN s.answers /\ s.answers[attr][2] >= 14

\* what holds of the selector when an early recommendation is made for a
\* connector with best_score over a runner-up with max_other_score: both
\* critical attributes asked, as many answers as the early recommendation
\* after an answer wants questions asked, the lower of the two score
\* thresholds met, the lower of the two gaps exceeded
early_grounds(s, best_score, max_other_score) ==
    {g \in {"critical_asked", "answered", "best_score", "score_gap"} :
        CASE g = "critical_asked" ->
                 {"mixed_power_signal", "housing_material"} \subseteq s.asked_questions
          [] g = "answered"   -> Cardinality(DOMAIN s.answers) >= early_asked
          [] g = "best_score" -> best_score >= initial_best_score * SCALE
          [] OTHER            -> best_score - max_other_score > early_score_gap * SCALE}

\* what _process_parsed_requirements hands back
Outcome(s, ret, q, best_connector, best_score, grounds) ==
    [s |-> s, ret |-> ret, q |-> q, best_connector |-> best_connector,
     best_score |-> best_score, grounds |-> grounds]

\* the end of _process_parsed_requirements: the early recommendation for
\* the best connector, else the next question
decide_opening(s, best_connector, best_score, max_other_score) ==
    IF /\ critical_attributes_met(s)
       /\ best_score >= initial_best_score * SCALE
       /\ best_score - max_other_score > initial_score_gap * SCALE
    THEN Outcome(s, "ready", NoQuestion, best_connector, best_score,
                 early_grounds(s, best_score, max_other_score))
    ELSE The({Outcome(next.s, IF next.q = NoQuestion THEN "exhausted" ELSE "continue",
                      next.q, "none", 0, {}) :
                 next \in {get_next_question(s)}})

\* the scores of the opening message: best and gap are taken before the
\* bonus of the connectors the message names is added
score_opening(s, scores, mentioned) ==
    IF \E c \in ConnectorSet : scores[c] = RAISED
    THEN Outcome(s, "raise", NoQuestion, "none", 0, {})
    ELSE The({decide_opening(
                  [s EXCEPT !.confidence_scores =
                      [c \in ConnectorSet |->
                          IF c \in mentioned THEN scores[c] + mention_bonus * SCALE
                          ELSE scores[c]]],
                  best_connector, scores[best_connector],
                  max_other_of(scores, best_connector)) :
                 best_connector \in {best_of(scores)}})

\* _process_parsed_requirements(parsed, message): mentioned is the set of
\* connector names found in message.upper().  ret is "raise" when an
\* exception leaves the function, "ready" for the early recommendation (with
\* best_connector and best_score), "exhausted" when no question is left and
\* "continue" otherwise
_process_parsed_requirements(s, parsed, mentioned) ==
    The({IF rec.raise THEN Outcome(rec.s, "raise", NoQuestion, "none", 0, {})
         ELSE The({score_opening(rec.s, scores, mentioned) :
                      scores \in {ScoreAll(rec.s.answers)}}) :
            rec \in {reconcile(absorb_all(s, parsed, 1), parsed)}})

\* the changes process_initial_message makes to parsed before it is
\* processed: a connection type next to a wire gauge becomes PCB-to-Cable,
\* and so does it when the message speaks of a pcb or a board
adjust_parsed(parsed, has_board) ==
    IF "wire_gauge" \in DOMAIN parsed /\ has_board
    THEN DictSet(parsed, "connection_type", <<StrV(S_PCB_to_Cable), 19>>)
    ELSE IF /\ {"connection_type", "wire_gauge"} \subseteq DOMAIN parsed
            /\ parsed["connection_type"][1] \notin {StrV(S_PCB_to_Cable), StrV(S_Cable_to_PCB)}
    THEN DictSet(parsed, "connection_type", <<StrV(S_PCB_to_Cable), 18>>)
    ELSE parsed

\* the except branch of process_initial_message: the scores are zeroed and
\* the next question is asked
opening_failed(s) ==
    The({[s |-> next.s,
          result |-> Via(MkResult("continue", "none", "none", next.q, FALSE),
                         IF next.q = NoQuestion THEN "exhausted" ELSE "question")] :
            next \in {get_next_question([s EXCEPT !.confidence_scores =
                                            [c \in ConnectorSet |-> 0]])}})

\* the recommendation that ends the opening message: the early one for the
\* connector _process_parsed_requirements found ready, else the one for the
\* best of confidence_scores
opening_recommendation(r) ==
    IF r.ret = "ready"
    THEN [Via(generate_recommendation(r.s, r.best_connector, r.best_score), "early")
             EXCEPT !.grounds = r.grounds]
    ELSE Via(generate_recommendation(r.s, "none", 0), "exhausted")

\* process_initial_message past the extraction
opening_result(r) ==
    CASE r.ret = "raise" -> opening_failed(r.s)
      [] r.ret = "continue" ->
            [s |-> r.s, result |-> Via(MkResult("continue", "none", "none", r.q, FALSE), "question")]
      [] OTHER -> [s |-> r.s, result |-> opening_recommendation(r)]

\* process_initial_message(message) on a selector s: the selector it leaves
\* and the result it returns.  The message is given by what was read in it
\* (parsed), the connector names it holds (mentioned) and whether it holds
\* "pcb" or "board" (has_board); it does not hold the words "straight" and
\* "side" next to a gauge.  kind "ok" is the extraction by the LLM, or by
\* _fallback_parse when the LLM's answer is no JSON: parsed is adjusted and
\* processed.  kind "llm_fail" is the call that fails or times out: what
\* _fallback_parse read is processed as it is, and the recommendation that
\* _process_parsed_requirements finds ready is generated by
\* connector_service from its result.  The selector is new, so the checks
\* the code makes on its answers before parsed is processed find nothing to
\* act on.
process_initial_message(s, parsed, mentioned, has_board, kind) ==
    The({[s |-> r.s,
          result |-> ParsedBy(r.result,
                              IF kind = "ok" THEN "extraction" ELSE "_fallback_parse")] :
            r \in {The({opening_result(processed) :
                           processed \in {_process_parsed_requirements(
                               s, IF kind = "llm_fail" THEN parsed
                                  ELSE adjust_parsed(parsed, has_board),
                               mentioned)}})}})

\* the auto-fill at the head of process_answer: a PCB-to-PCB connection sets
\* the location answer
pcb_autofill(s) ==
    IF /\ "connection_types" \in DOMAIN s.answers
       /\ s.answers["connection_types"][1].k = "str"
       /\ Lower(s.answers["connection_types"][1].s) \in pcb_to_pcb_names
    THEN [s EXCEPT !.answers = DictSet(@, "location", <<StrV(S_internal), 19>>),
                   !.asked_questions = @ \cup {"location"}]
    ELSE s

\* variant: the restart keeps the history and the counter of failures
restart_keeping_history(s) ==
    The({[sel.s EXCEPT !.current_question = sel.q] :
            sel \in {select_next_question(
                        [s EXCEPT !.answers = EmptyDict,
                                  !.asked_questions = {},
                                  !.confidence_scores = [c \in ConnectorSet |-> 0]])}})

\* the restart branch of process_answer
restart(s) ==
    The({[sel.s EXCEPT !.current_question = sel.q,
                       !.question_history = <<>>,
                       !.parse_failures = 0] :
            sel \in {select_next_question(
                        [s EXCEPT !.answers = EmptyDict,
                                  !.asked_questions = {},
                                  !.confidence_scores = [c \in ConnectorSet |-> 0]])}})

\* parse_response_with_llm on the counter of failures: the height question is
\* parsed locally; for the others the counter is cleared when the LLM
\* answers and incremented when the call fails ("llm_fail") or when its
\* answer does not parse ("parser_fail")
parse_outcome(s, kind) ==
    IF s.current_question = "height_requirement" THEN s
    ELSE CASE kind = "ok"          -> [s EXCEPT !.parse_failures = 0]
           [] kind = "llm_fail"    -> [s EXCEPT !.parse_failures = @ + 1]
           [] OTHER                -> [s EXCEPT !.parse_failures = 1]

\* the count of failures above which the aggressive fallback parses
aggressive_after == 2

\* the parser of the response, given the selector parse_outcome leaves
fallback_parser(s, kind) ==
    IF s.current_question = "height_requirement" THEN "parse_space_constraints"
    ELSE IF kind = "ok" THEN "output_parser"
    ELSE IF s.parse_failures > aggressive_after THEN "_aggressive_fallback_parse"
    ELSE "_simple_fallback_parse"

\* the score a connector holds after an answer: the old one when scoring
\* raises
rescored(old, score) == IF score = RAISED THEN old ELSE score

\* the scores after an answer: a connector at 0 is left alone once a housing
\* answer exists, and so is one whose scoring raises
updated_scores(confidence, new_answers) ==
    [c \in ConnectorSet |->
        IF "housing_material" \in DOMAIN new_answers /\ confidence[c] = 0
        THEN confidence[c]
        ELSE rescored(confidence[c], calculate_connector_score(connectors[c], new_answers))]

\* variant: what a failed parse returned is dropped
stored_entry_dropped(attr, entry) == <<NoneV, 0>>

\* what is stored for the current question: a gauge that normalises is
\* stored normalised
stored_entry(attr, entry) ==
    IF attr # "wire_gauge" \/ entry[1].k = "none" THEN entry
    ELSE The({IF normalized_awg.k = "none" THEN entry ELSE <<normalized_awg, entry[2]>> :
                 normalized_awg \in {normalize_awg_value(entry[1])}})

\* variant: the recording keeps no history
record_answer_silent(s, entry) ==
    The({[s EXCEPT !.answers = new_answers,
                   !.asked_questions = @ \cup {s.current_question},
                   !.confidence_scores = updated_scores(@, new_answers)] :
            new_answers \in {DictSet(s.answers, s.current_question,
                                     stored_entry(s.current_question, entry))}})

\* variant: the recording leaves the asked set alone
record_answer_unasked(s, entry) ==
    The({[s EXCEPT !.answers = new_answers,
                   !.question_history =
                       Append(@, [question |-> s.current_question,
                                  answer |-> entry[1], confidence |-> entry[2]]),
                   !.confidence_scores = updated_scores(@, new_answers)] :
            new_answers \in {DictSet(s.answers, s.current_question,
                                     stored_entry(s.current_question, entry))}})

\* the recording of parsed_response = entry for the current question: the
\* answer, the asked set, the history, the gauge normalisation, the scores
record_answer(s, entry) ==
    The({[s EXCEPT !.answers = new_answers,
                   !.asked_questions = @ \cup {s.current_question},
                   !.question_history =
                       Append(@, [question |-> s.current_question,
                                  answer |-> entry[1], confidence |-> entry[2]]),
                   !.confidence_scores = updated_scores(@, new_answers)] :
            new_answers \in {DictSet(s.answers, s.current_question,
                                     stored_entry(s.current_question, entry))}})

\* variant: the thresholds of the opening message after an answer too
early_commit_opening(s, best_connector) ==
    /\ s.confidence_scores[best_connector] >= initial_best_score * SCALE
    /\ s.confidence_scores[best_connector] - max_other_of(s.confidence_scores, best_connector)
           > initial_score_gap * SCALE
    /\ {"mixed_power_signal", "housing_material"} \subseteq s.asked_questions
    /\ Cardinality(s.asked_questions) >= early_asked

\* the conditions of the early recommendation, given the best connector
early_commit(s, best_connector) ==
    /\ s.confidence_scores[best_connector] >= early_best_score * SCALE
    /\ s.confidence_scores[best_connector] - max_other_of(s.confidence_scores, best_connector)
           > early_score_gap * SCALE
    /\ {"mixed_power_signal", "housing_material"} \subseteq s.asked_questions
    /\ Cardinality(s.asked_questions) >= early_asked

\* next((q for q in self.all_questions if q["attribute"] not in asked), None)
first_unasked(s) ==
    LET open == {i \in 1..Len(all_questions) : all_questions[i].attribute \notin s.asked_questions}
    IN  IF open = {} THEN NoQuestion
        ELSE all_questions[CHOOSE i \in open : \A j \in open : i <= j].attribute

\* the selector asks its current question, or recommends when none is left
ask_or_recommend(s) ==
    IF s.current_question # NoQuestion
    THEN [s |-> s,
          result |-> Via(MkResult("continue", "none", "none", s.current_question, FALSE),
                         "question")]
    ELSE [s |-> s, result |-> Via(generate_recommendation(s, "none", 0), "exhausted")]

\* the next question after an answer, with the first unasked question when
\* the selection raises
advance(s) ==
    The({ask_or_recommend(IF sel.raise THEN [s EXCEPT !.current_question = first_unasked(s)]
                          ELSE [sel.s EXCEPT !.current_question = sel.q]) :
            sel \in {select_next_question(s)}})

\* what follows the recording: the early recommendation, the next question,
\* or the final recommendation
after_record(s) ==
    IF \E best_connector \in {best_of(s.confidence_scores)} : early_commit(s, best_connector)
    THEN [s |-> s,
          result |-> The({[Via(generate_recommendation(s, "none", 0), "early")
                              EXCEPT !.grounds =
                                  early_grounds(s, s.confidence_scores[best_connector],
                                                max_other_of(s.confidence_scores, best_connector))] :
                             best_connector \in {best_of(s.confidence_scores)}})]
    ELSE advance(s)

\* process_answer past the restart and height shortcuts: the response is
\* parsed (kind) to entry, recorded, and followed up
process_answer(s, kind, entry) ==
    The({[s |-> r.s,
          result |-> ParsedBy(r.result, parser)] :
            r \in {The({after_record(recorded) :
                           recorded \in {record_answer(parse_outcome(pcb_autofill(s), kind),
                                                       entry)}})},
            parser \in {fallback_parser(parse_outcome(pcb_autofill(s), kind), kind)}})

----------------------------------------------------------------------------
(* The session as a state machine *)

\* most entries the extraction reads in an opening message
MaxParsed == 2

\* failed LLM calls in a row that are followed
MaxParseFailures == 3

S_many == <<"m", "a", "n", "y">>

\* what the extraction may return for a key of the opening message
ParsedEntries(attr) ==
    CASE attr = "pitch_size"            -> {<<NumV(200), 18>>}
      [] attr = "pin_count"             -> {<<StrV(S_many), 18>>}
      [] attr = "emi_protection"        -> {<<BoolV(TRUE), 18>>}
      [] attr = "housing_material"      -> {<<StrV(S_metal), 18>>, <<StrV(S_plastic), 12>>}
      [] attr = "height_requirement"    -> {<<NumV(400), 8>>, <<NoneV, 0>>}
      [] attr = "wire_gauge"            -> {<<StrV(Awg("2", "4")), 20>>}
      [] attr = "right_angle"           -> {<<BoolV(TRUE), 18>>}
      [] attr = "connector_orientation" -> {<<BoolV(TRUE), 16>>, <<BoolV(TRUE), 18>>,
                                            <<BoolV(FALSE), 20>>}
      [] attr = "connection_type"       -> {<<StrV(S_PCB_to_PCB), 18>>, <<StrV(S_Cable_to_Cable), 18>>,
                                            <<StrV(S_Cable_to_PCB), 18>>}
      [] attr = "connection_types"      -> {<<NumV(1), 18>>}
      [] attr = "mixed_power_signal"    -> {<<BoolV(TRUE), 18>>}
      [] attr = "location"              -> {<<StrV(S_external), 18>>}
      [] OTHER                          -> {}

\* every key of parsed holds an entry the extraction may return for it
WellKeyed(parsed) == \A a \in DOMAIN parsed : parsed[a] \in ParsedEntries(a)

\* the parsed opening messages: every dict of at most MaxParsed keys
ParsedMessages ==
    {parsed \in UNION {[K -> UNION {ParsedEntries(a) : a \in K}] : K \in
                 {K \in SUBSET {ParsedOrder[i] : i \in 1..Len(ParsedOrder)} :
                     Cardinality(K) <= MaxParsed}} :
        WellKeyed(parsed)}

\* the connector names an opening message may hold
MentionedSets == {{}, {"DMM"}}

\* what parsing may return for the answer to a question
AnswerEntries(attr) ==
    CASE attr = "connection_types"   -> {<<StrV(S_PCB_to_Cable), 18>>, <<StrV(S_PCB_to_PCB), 18>>}
      [] attr = "location"           -> {<<StrV(S_internal), 18>>}
      [] attr = "housing_material"   -> {<<StrV(S_plastic), 18>>, <<StrV(S_metal), 18>>}
      [] attr = "mixed_power_signal" -> {<<BoolV(FALSE), 16>>, <<BoolV(TRUE), 18>>}
      [] attr = "pin_count"          -> {<<NumV(20), 18>>}
      [] attr = "height_requirement" -> {<<NumV(400), 18>>}
      [] attr = "pitch_size"         -> {<<NumV(200), 18>>, <<NumV(100), 18>>}
      [] attr = "right_angle"        -> {<<BoolV(FALSE), 18>>}
      [] attr = "temp_range"         -> {<<NumV(85), 18>>}
      [] attr = "max_current"        -> {<<NumV(3), 18>>}
      [] attr = "wire_gauge"         -> {<<StrV(Awg("2", "4")), 18>>}
      [] OTHER                       -> {}

ParseKinds == {"ok", "llm_fail", "parser_fail"}

\* how the extraction of the opening message may go
OpeningKinds == {"ok", "llm_fail"}

\* the selector's fields become those of the record s
Becomes(s) ==
    /\ answers' = s.answers
    /\ asked_questions' = s.asked_questions
    /\ confidence_scores' = s.confidence_scores
    /\ current_question' = s.current_question
    /\ question_history' = s.question_history
    /\ parse_failures' = s.parse_failures

\* variant: the selector outlives the recommendation
Returns_keeping(s, res) ==
    /\ result' = res
    /\ selector' = "live"
    /\ Becomes(s)

\* the call returned res and left the selector as s.  connector_service
\* sets connector_selector to None after a recommendation and after an
\* error; the field variables of a session without selector hold what a new
\* selector starts with
Returns(s, res) ==
    /\ result' = res
    /\ selector' = IF res.status = "continue" THEN "live" ELSE "none"
    /\ Becomes(IF res.status = "continue" THEN s ELSE NewSelector)

Init ==
    /\ score_args = EmptyDict
    /\ score_result = ScoreAll(EmptyDict)
    /\ SelectorInit
    /\ selector = "none"
    /\ result = NoResult
    /\ ApiInit
    /\ ParseIdle
    /\ ServiceIdle
    /\ AwgIdle

\* the calls of process_initial_message on a new selector: the parsed
\* message, the connectors it names, whether it names a board, how the
\* extraction goes, and what the call returns.  has_board is read only next
\* to a wire gauge and only when the extraction is adjusted, so it is left
\* FALSE elsewhere
OpeningInputs ==
    {x \in ParsedMessages \X MentionedSets \X BOOLEAN \X OpeningKinds :
        x[3] => ("wire_gauge" \in DOMAIN x[1] /\ x[4] # "llm_fail")}

\* (the comparison has every call evaluated in full where the set is built)
OpeningCalls ==
    {call \in {[parsed |-> x[1], mentioned |-> x[2], has_board |-> x[3], kind |-> x[4],
                returned |-> process_initial_message(NewSelector, x[1], x[2], x[3], x[4])] :
                   x \in OpeningInputs} :
        call = call}

\* generate_connector_selection without a selector: a new one is made and
\* the input is its opening message; a recommendation discards the selector
OpeningMessage(call) ==
    /\ selector = "none"
    /\ Returns(call.returned.s, call.returned.result)
    /\ UNCHANGED <<score_vars, api_vars, awg_vars, parse_vars, service_vars>>

\* process_answer without a current question: the error discards the selector
NoActiveQuestion ==
    /\ selector = "live"
    /\ current_question = NoQuestion
    /\ Returns(Self, Via(MkResult("error", "none", "none", NoQuestion, FALSE), "error"))
    /\ UNCHANGED <<score_vars, api_vars, awg_vars, parse_vars, service_vars>>

\* process_answer on a response that asks for a restart
Restart ==
    /\ selector = "live"
    /\ current_question # NoQuestion
    /\ \E s \in {restart(Self)} :
          Returns(s, Via(MkResult("continue", "none", "none", s.current_question, TRUE),
                         "restart"))
    /\ UNCHANGED <<score_vars, api_vars, awg_vars, parse_vars, service_vars>>

\* process_answer on "don't know" to the height question while the pitch
\* question is open: the pitch question is next.  (With the pitch question
\* asked the response is parsed like any other, see Answer.)
HeightUncertain ==
    /\ selector = "live"
    /\ current_question = "height_requirement"
    /\ \E s \in {pcb_autofill(Self)} :
          /\ "pitch_size" \notin s.asked_questions
          /\ Returns([s EXCEPT !.answers = DictSet(@, "height_requirement", <<NoneV, 0>>),
                               !.asked_questions = @ \cup {"height_requirement"},
                               !.current_question = "pitch_size"],
                     Via(MkResult("continue", "none", "none", "pitch_size", FALSE),
                         "shortcut"))
    /\ UNCHANGED <<score_vars, api_vars, awg_vars, parse_vars, service_vars>>

\* process_answer on any other response: it is parsed to entry, recorded and
\* followed by a question or a recommendation
Answer(kind, entry) ==
    /\ selector = "live"
    /\ current_question # NoQuestion
    /\ entry \in AnswerEntries(current_question)
    /\ current_question = "height_requirement" => kind = "ok"
    /\ kind = "llm_fail" => parse_failures < MaxParseFailures
    /\ \E r \in {process_answer(Self, kind, entry)} : Returns(r.s, r.result)
    /\ UNCHANGED <<score_vars, api_vars, awg_vars, parse_vars, service_vars>>

Next ==
    \/ \E call \in OpeningCalls : OpeningMessage(call)
    \/ NoActiveQuestion
    \/ Restart
    \/ HeightUncertain
    \/ \E kind \in ParseKinds : \E attr \in QuestionAttrs : \E entry \in AnswerEntries(attr) :
          Answer(kind, entry)

Spec == Init /\ [][Next]_vars

----------------------------------------------------------------------------
(* Properties of the session *)

\* a question is pending in a live selector
QuestionPending == selector = "live" /\ current_question # NoQuestion

\* the history entry process_answer appends for entry
HistoryEntry(attr, entry) == [question |-> attr, answer |-> entry[1], confidence |-> entry[2]]

\* recording entry again after once leaves answers, asked set and scores
SameLedger(once, twice) ==
    /\ twice.answers = once.answers
    /\ twice.asked_questions = once.asked_questions
    /\ twice.confidence_scores = once.confidence_scores

\* the opening-message path stores the same item twice with no change at all
AbsorbIdempotent ==
    \A i \in 1..Len(ParsedOrder) : \A entry \in ParsedEntries(ParsedOrder[i]) :
        \E once \in {absorb(Self, ParsedOrder[i], entry)} :
            absorb(once, ParsedOrder[i], entry) = once

\* C6 (as stated): recording the same (attribute, value, confidence) a second
\* time leaves answers, the asked set, the history and every candidate's
\* confidence score exactly as they were after the first recording.
C6_RecordTwiceKeepsLedger ==
    QuestionPending =>
        \A entry \in AnswerEntries(current_question) :
            \E once \in {record_answer(Self, entry)} :
                \E twice \in {record_answer(once, entry)} :
                    /\ SameLedger(once, twice)
                    /\ twice.question_history = once.question_history

\* C6 (amended): recording the same (attribute, value, confidence) a second
\* time leaves answers, the asked set and every candidate's confidence score
\* as they were after the first recording, and the history is one entry
\* longer: the recording of process_answer appends to it every time.  The
\* opening-message path, which keeps no history, changes nothing.
C6_RecordTwiceKeepsAnswersAndScores ==
    QuestionPending =>
        /\ \A entry \in AnswerEntries(current_question) :
              \E once \in {record_answer(Self, entry)} :
                  \E twice \in {record_answer(once, entry)} :
                      /\ SameLedger(once, twice)
                      /\ twice.question_history =
                             Append(once.question_history, HistoryEntry(current_question, entry))
        /\ AbsorbIdempotent

\* C6 witness: a question is pending after answers have been recorded and
\* scored, so that a second recording meets a ledger the first one wrote
C6_Witness ==
    /\ QuestionPending
    /\ Len(question_history) >= 2
    /\ question_history[1].question \in DOMAIN answers
    /\ \E c \in ConnectorSet : confidence_scores[c] > 0

\* C7: after a restart request is processed, answers and the asked set are
\* empty, the parse-failure counter and the history are reset, every
\* candidate's stored score equals its score with zero answers, and the
\* pending question is the lowest-order question, the connection type.
C7_RestartResets ==
    result.restarted =>
        /\ answers = EmptyDict
        /\ asked_questions = {}
        /\ parse_failures = 0
        /\ question_history = <<>>
        /\ \A c \in ConnectorSet :
              confidence_scores[c] = calculate_connector_score(connectors[c], EmptyDict)
        /\ current_question = "connection_types"
        /\ \A i \in 1..Len(all_questions) :
              all_questions[i].order >= QuestionOf("connection_types").order
        /\ result.status = "continue"
        /\ result.question = current_question
        /\ selector = "live"

\* C7 witness: a restart has been processed
C7_Witness == result.restarted /\ selector = "live" /\ answers = EmptyDict

\* C10 (as stated): in every reachable session state each attribute in
\* asked_questions has an entry in answers.
C10_AskedHaveAnswers ==
    selector = "live" => asked_questions \subseteq DOMAIN answers


\* C11: in a live dialogue the stored score of every connector is the score
\* calculate_connector_score gives for the answers as they stand, whatever
\* operation changed the answers last (refuted: see RESULTS.json)
C11_ScoresFresh ==
    selector = "live" =>
        \A c \in ConnectorSet :
            confidence_scores[c] = calculate_connector_score(connectors[c], answers)


\* C12: without a restart every answer consumes a catalog question that was
\* not asked before.  The pending question of a live dialogue is a catalog
\* question outside the asked set, the answers processed since the dialogue
\* (re)started are no more than the catalog questions asked, and a step that
\* keeps the dialogue alive without restarting it adds the pending question
\* to the asked set: at most 11 answers are consumed before no question is
\* left or a recommendation ends the dialogue
C12_AnswerConsumesQuestion ==
    [][ (selector = "live" /\ current_question # NoQuestion) =>
            /\ current_question \in QuestionAttrs \ asked_questions
            /\ Len(question_history) <= Cardinality(asked_questions \cap QuestionAttrs)
            /\ Cardinality(QuestionAttrs) = 11
            /\ (selector' = "live" /\ ~result'.restarted) =>
                   /\ asked_questions \cup {current_question} \subseteq asked_questions'
                   /\ Len(question_history') <= Len(question_history) + 1 ]_vars

\* a dialogue that has consumed four answers and is still asking
C12_Witness ==
    /\ selector = "live"
    /\ current_question # NoQuestion
    /\ Len(question_history) >= 4
    /\ result.via = "question"


\* C13: a call that finds no question left returns a recommendation: the
\* contact outcome when the leading score is under the contact threshold,
\* else a connector; it does not return continue or an error (refuted: see
\* RESULTS.json)
C13_NoQuestionCommits ==
    result.via = "exhausted" =>
        /\ result.status = "complete"
        /\ result.question = NoQuestion
        /\ IF result.low THEN result.connector = "contact"
           ELSE result.connector \in ConnectorSet


\* C14: an early recommendation, after the opening message or after an
\* answer, is made only with both critical attributes asked, three or more
\* attributes answered, a leading score of 57 or more and a lead of more than
\* 15 over the runner-up
C14_EarlyCommitGrounds ==
    result.via = "early" =>
        result.grounds = {"critical_asked", "answered", "best_score", "score_gap"}


\* C15: a final decision names the contact outcome, with confidence
\* "insufficient", when the leading score is under 22, and a connector only
\* when the leading score is 22 or more (refuted: see RESULTS.json)
C15_LowScoreEscalates ==
    result.status = "complete" =>
        IF result.low
        THEN result.connector = "contact" /\ result.confidence = "insufficient"
        ELSE result.connector \in ConnectorSet


\* C17: a recommendation produced by the failure path of
\* generate_recommendation (confidence "error") is the contact outcome and
\* names no connector (refuted: see RESULTS.json)
C17_FailureEscalates ==
    (result.status = "complete" /\ result.confidence = "error") =>
        result.connector = "contact"


\* C16: every result a call returns is continue with a next question, a
\* commit to a connector, or the contact outcome; no call returns an error
\* or a continue without a question (refuted: see RESULTS.json)
C16_ThreeOutcomes ==
    \/ result = NoResult
    \/ result.status = "continue" /\ result.question \in QuestionAttrs
    \/ result.status = "complete" /\ result.connector \in ConnectorSet \cup {"contact"}

\* C16, the part about errors alone: no call returns status "error"
\* (refuted as well)
C16_NoErrorStatus == result.status # "error"


\* C18: when the counter of failures shows more than two failed
\* interpretations in a row, the next interpretation that fails (a failed
\* call or an output that does not parse) is parsed by the aggressive
\* fallback, and the call returns no error (refuted: see RESULTS.json)
C18_AggressiveAfterTwo ==
    [][ (/\ selector = "live"
         /\ parse_failures > aggressive_after
         /\ result'.parser \in FallbackParsers) =>
            /\ result'.parser = "_aggressive_fallback_parse"
            /\ result'.status # "error" ]_vars


\* the last entry of the history
LastAnswer == question_history[Len(question_history)]

\* C19: a call in which the interpretation failed (the LLM call failed or
\* timed out, or its output did not parse) returns continue or a
\* recommendation, never an error; when it was an answer and the dialogue
\* goes on, the value and confidence the fallback returned are in the
\* history and in answers (the wire gauge value in its normalised form)
C19_FailureStillRecords ==
    result.parser \in FallbackParsers =>
        /\ result.status \in {"continue", "complete"}
        /\ result.status = "complete" => result.connector \in ConnectorSet \cup {"contact"}
        /\ (result.status = "continue" /\ result.parser # "_fallback_parse") =>
               /\ question_history # <<>>
               /\ LastAnswer.question \in DOMAIN answers \cap asked_questions
               /\ answers[LastAnswer.question][2] = LastAnswer.confidence
               /\ LastAnswer.question # "wire_gauge" =>
                      answers[LastAnswer.question][1] = LastAnswer.answer

\* an answer whose LLM call failed for the third time in a row was recorded
\* and the dialogue goes on
C19_Witness ==
    /\ selector = "live"
    /\ result.parser = "_aggressive_fallback_parse"
    /\ result.status = "continue"
    /\ question_history # <<>>

\* an opening message whose extraction failed ended in a recommendation
C19_WitnessOpening ==
    /\ result.parser = "_fallback_parse"
    /\ result.status = "complete"


\* C20: once a recommendation (a connector or the contact outcome) has been
\* delivered the session has no selector and nothing of the finished
\* dialogue is left in its fields; the next message is processed as an
\* opening message: it is read by the extraction or by _fallback_parse, it
\* starts a history and a failure count of its own, and it is no
\* restart
C20_DeliveredDiscards ==
    [][ result.status = "complete" =>
            /\ selector = "none"
            /\ Self = NewSelector
            /\ result'.parser \in {"extraction", "_fallback_parse"}
            /\ result'.via \in {"question", "early", "exhausted"}
            /\ ~result'.restarted
            /\ question_history' = <<>>
            /\ parse_failures' = 0
            /\ asked_questions' \subseteq
                   {ParsedOrder[i] : i \in 1..Len(ParsedOrder)} \cup QuestionAttrs ]_vars

\* a recommendation delivered at the end of a dialogue of answers
C20_Witness ==
    /\ result.status = "complete"
    /\ result.connector \in ConnectorSet \cup {"contact"}
    /\ result.parser = "_simple_fallback_parse"
    /\ selector = "none"
    /\ Self = NewSelector

----------------------------------------------------------------------------
(* The HTTP endpoints of app/api/routes.py *)

\* sessions a run may create
MaxSessions == 3

\* the values uuid4 may give
SessionIds == 1..MaxSessions

\* a session id no new_session call returned ("invalid_session_id")
InvalidSessionId == 0

RequestIds == SessionIds \cup {InvalidSessionId}

\* what may raise while a request is served: nothing, the database connection,
\* or the session history
Failures == {"none", "connect", "history"}

\* the lifespan's initialisation ends: startup_complete.set()
startup ==
    /\ ~startup_complete
    /\ startup_complete' = TRUE
    /\ UNCHANGED <<score_vars, session_vars, awg_vars, parse_vars, service_vars, session_mapping, response>>

\* POST /new_session.  The mapping is written before the greeting is stored,
\* so a failing history leaves the session behind a 500
new_session(session_id, fails) ==
    /\ session_id \notin DOMAIN session_mapping
    /\ session_mapping' =
          IF startup_complete /\ fails # "connect"
          THEN DictSet(session_mapping, session_id, Cardinality(DOMAIN session_mapping) + 1)
          ELSE session_mapping
    /\ response' = [endpoint |-> "POST /new_session", session_id |-> session_id,
                    message |-> FALSE,
                    status_code |-> IF ~startup_complete THEN 503
                                    ELSE IF fails # "none" THEN 500 ELSE 200]
    /\ UNCHANGED <<score_vars, session_vars, awg_vars, parse_vars, service_vars, startup_complete>>

\* POST /chat.  The 503 is raised before the try block; inside it every
\* exception, the KeyError of a body without message and the HTTPException of
\* the session test included, is caught by `except Exception` and raised
\* again as a 500.  The body of a 200 is streamed by generate_response or by
\* generate_connector_selection (the actions of Spec)
chat(session_id, has_message, fails) ==
    /\ response' = [endpoint |-> "POST /chat", session_id |-> session_id,
                    message |-> has_message,
                    status_code |->
                        IF ~startup_complete THEN 503
                        ELSE IF ~has_message THEN 500
                        ELSE IF session_id \notin DOMAIN session_mapping THEN 500
                        ELSE IF fails = "history" THEN 500
                        ELSE 200]
    /\ UNCHANGED <<score_vars, session_vars, awg_vars, parse_vars, service_vars, session_mapping, startup_complete>>

\* GET /session/{session_id}: `except HTTPException: raise` lets the 404
\* through, any other exception is a 500
get_session(session_id, fails) ==
    /\ response' = [endpoint |-> "GET /session", session_id |-> session_id,
                    message |-> FALSE,
                    status_code |->
                        IF session_id \notin DOMAIN session_mapping THEN 404
                        ELSE IF fails = "history" THEN 500
                        ELSE 200]
    /\ UNCHANGED <<score_vars, session_vars, awg_vars, parse_vars, service_vars, session_mapping, startup_complete>>

ApiNext ==
    \/ startup
    \/ \E session_id \in SessionIds : \E fails \in Failures : new_session(session_id, fails)
    \/ \E session_id \in RequestIds : \E has_message \in BOOLEAN : \E fails \in Failures \ {"connect"} :
          chat(session_id, has_message, fails)
    \/ \E session_id \in RequestIds : \E fails \in Failures \ {"connect"} :
          get_session(session_id, fails)

SpecApi == Init /\ [][ApiNext]_vars

----------------------------------------------------------------------------
(* Properties of the endpoints, checked under SpecApi *)

\* the last request named a session that is not in session_mapping
UnknownSession == response.session_id \notin DOMAIN session_mapping

\* C21: a POST /chat request that carries a message for a session id that is
\* not a known session and is not turned away during startup (503), and a
\* GET /session/{id} request for such an id, are answered with status 404
C21_UnknownSessionIs404 ==
    /\ (response.endpoint = "GET /session" /\ UnknownSession) => response.status_code = 404
    /\ (response.endpoint = "POST /chat" /\ UnknownSession /\ response.message
          /\ response.status_code # 503) => response.status_code = 404

\* the part of C21 the code keeps: GET /session/{id} for an unknown id is a 404
C21_GetUnknownIs404 ==
    (response.endpoint = "GET /session" /\ UnknownSession) => response.status_code = 404

\* an unknown session was asked for with GET /session/{id}
C21_GetWitness ==
    response.endpoint = "GET /session" /\ UnknownSession /\ response.status_code = 404

----------------------------------------------------------------------------
(* normalize_awg_value on its own: the calls of test_normalize_awg_value *)

\* longest string passed
MaxAwgLen == 5

\* characters of the strings passed
AwgChars == {"A", "W", "G", "a", "2", " "}

\* the arguments that are no strings: ints, floats, a bool, None, and the
\* floats json.loads gives for NaN and Infinity
AwgScalars == {NumV(24), NumV(0), FloatV(2450), FloatV(0 - 50), BoolV(TRUE), NoneV, NanV, InfV}

\* normalize_awg_value(x) for a scalar or the empty string
AwgInit ==
    /\ score_args = EmptyDict
    /\ score_result = ScoreAll(EmptyDict)
    /\ SelectorInit
    /\ selector = "none"
    /\ result = NoResult
    /\ ApiInit
    /\ ParseIdle
    /\ ServiceIdle
    /\ awg_arg \in AwgScalars \cup {StrV(<<>>)}
    /\ awg_returned = BothNormalized(awg_arg)

\* normalize_awg_value(x + ch) for the string x passed before
NormalizeLonger(ch) ==
    /\ awg_arg.k = "str"
    /\ Len(awg_arg.s) < MaxAwgLen
    /\ awg_arg' = StrV(Append(awg_arg.s, ch))
    /\ awg_returned' = BothNormalized(awg_arg')
    /\ UNCHANGED <<score_vars, session_vars, api_vars, parse_vars, service_vars>>

AwgNext == \E ch \in AwgChars : NormalizeLonger(ch)

SpecAwg == AwgInit /\ [][AwgNext]_vars

----------------------------------------------------------------------------
(* Properties of normalize_awg_value, checked under SpecAwg *)

\* s is "AWG" followed by one or more digits
AwgThenDigits(s) ==
    /\ Len(s) > 3
    /\ SubSeq(s, 1, 3) = S_AWG
    /\ \A i \in 4..Len(s) : IsDigit(s[i])

\* C22: normalize_awg_value never raises; an int maps to itself and a float
\* to its integer part; the string "AWG" followed by digits maps to the
\* integer the digits write; a string without "AWG" in any case, and None,
\* map to None; the method and the helper return the same
C22_NormalizeNeverRaises ==
    /\ awg_returned.method.k # "raise"
    /\ awg_returned.helper = awg_returned.method
    /\ awg_arg.k = "num" => awg_returned.method = awg_arg
    /\ awg_arg.k = "float" => awg_returned.method = NumV(Trunc(awg_arg.n))
    /\ (awg_arg.k = "str" /\ AwgThenDigits(awg_arg.s)) =>
           awg_returned.method = NumV(DigitsValue(SubSeq(awg_arg.s, 4, Len(awg_arg.s))))
    /\ (awg_arg.k = "str" /\ ~Contains(S_AWG, Upper(awg_arg.s))) => awg_returned.method = NoneV
    /\ awg_arg.k = "none" => awg_returned.method = NoneV

\* the same without the first conjunct, for every argument that is no NaN and
\* no infinity: what the code keeps of C22
C22_FiniteNormalized ==
    awg_arg.k \notin {"nan", "inf"} =>
        /\ awg_returned.method.k \in {"num", "none"}
        /\ awg_returned.helper = awg_returned.method
        /\ awg_arg.k = "num" => awg_returned.method = awg_arg
        /\ awg_arg.k = "float" => awg_returned.method = NumV(Trunc(awg_arg.n))
        /\ (awg_arg.k = "str" /\ AwgThenDigits(awg_arg.s)) =>
               awg_returned.method = NumV(DigitsValue(SubSeq(awg_arg.s, 4, Len(awg_arg.s))))
        /\ (awg_arg.k = "str" /\ ~Contains(S_AWG, Upper(awg_arg.s))) => awg_returned.method = NoneV
        /\ awg_arg.k = "none" => awg_returned.method = NoneV

\* "AWG22" was normalized to 22
C22_WitnessString == awg_arg = StrV(<<"A", "W", "G", "2", "2">>) /\ awg_returned.method = NumV(22)

\* a string that names no gauge was normalized to None
C22_WitnessInvalid == awg_arg = StrV(<<"a", "2">>) /\ awg_returned.method = NoneV

----------------------------------------------------------------------------
(* Question selection, checked under Spec *)

\* the questions the standard selection may return: attribute not asked
\* (nothing is skip-marked without a dependency skip, and every call passes
\* an empty skipped_questions, so no question was skipped twice)
OpenQuestions(asked) == QuestionAttrs \ asked

\* the connection type answered is one of the PCB-to-PCB spellings
IsPcbToPcb(ans) ==
    /\ "connection_types" \in DOMAIN ans
    /\ ans["connection_types"][1].k = "str"
    /\ Lower(ans["connection_types"][1].s) \in pcb_to_pcb_names

\* the height question was asked and its answer is missing or has a
\* confidence below 0.5, and the pitch question is open
HeightOverride(ans, asked) ==
    /\ "height_requirement" \in asked
    /\ \/ "height_requirement" \notin DOMAIN ans
       \/ ans["height_requirement"][2] < 10
    /\ "pitch_size" \notin asked

\* C23: a question selected while neither the height override nor a
\* dependency skip applies is the open question of the smallest order, and
\* an answer is followed by the final recommendation for want of a question
\* only when no question is open (the two a PCB-to-PCB connection fills in
\* aside)
C23_SmallestOrderSelected ==
    [][ /\ (selector' = "live" /\ result'.via = "question"
              /\ ~HeightOverride(answers', asked_questions') /\ ~IsPcbToPcb(answers')) =>
               /\ current_question' \in OpenQuestions(asked_questions')
               /\ \A a \in OpenQuestions(asked_questions') :
                      QuestionOf(current_question').order <= QuestionOf(a).order
        /\ (selector = "live" /\ result'.via = "exhausted" /\ result'.status = "complete") =>
               /\ OpenQuestions(asked_questions \cup {current_question})
                      \subseteq {"wire_gauge", "location"}
               /\ OpenQuestions(asked_questions \cup {current_question}) # {} =>
                      (IsPcbToPcb(answers) \/ current_question = "connection_types") ]_vars

\* a question was selected past asked questions of smaller and of larger order
C23_Witness ==
    /\ selector = "live" /\ result.via = "question"
    /\ ~HeightOverride(answers, asked_questions) /\ ~IsPcbToPcb(answers)
    /\ \E a \in asked_questions \cap QuestionAttrs :
           QuestionOf(a).order < QuestionOf(current_question).order
    /\ \E a \in asked_questions \cap QuestionAttrs :
           QuestionOf(a).order > QuestionOf(current_question).order

\* an answer to the last open question was followed by the recommendation
C23_WitnessNone ==
    /\ result.via = "exhausted" /\ result.status = "complete"
    /\ result.parser \notin {"extraction", "_fallback_parse"}


\* C24: while the height question is asked with its answer missing or of a
\* confidence below 0.5 and the pitch question is not asked, the question
\* the selector asks next is the pitch question
C24_UncertainHeightAsksPitch ==
    (selector = "live" /\ current_question # NoQuestion
        /\ HeightOverride(answers, asked_questions)) =>
        current_question = "pitch_size"

\* the pitch question was selected ahead of open questions of smaller order,
\* after an opening message that gave the height with low confidence
C24_Witness ==
    /\ selector = "live" /\ result.via = "question"
    /\ HeightOverride(answers, asked_questions)
    /\ "height_requirement" \in DOMAIN answers
    /\ current_question = "pitch_size"
    /\ {"connection_types", "location"} \cap asked_questions = {}

\* the same after "don't know" to the height question
C24_WitnessShortcut ==
    /\ selector = "live" /\ result.via = "shortcut"
    /\ HeightOverride(answers, asked_questions)
    /\ current_question = "pitch_size"


\* ("internal", 0.95), the location stored for a PCB-to-PCB connection
DefaultLocation == <<StrV(S_internal), 19>>

\* C25 as stated: with a PCB-to-PCB connection recorded, wire_gauge and
\* location are answered with a confidence that counts as high (above 0.7),
\* are asked, and are not the question asked
C25_PcbToPcbHighConfidence ==
    (selector = "live" /\ IsPcbToPcb(answers)) =>
        /\ {"wire_gauge", "location"} \subseteq (DOMAIN answers \cap asked_questions)
        /\ answers["wire_gauge"][2] > 14
        /\ answers["location"][2] > 14
        /\ current_question \notin {"wire_gauge", "location"}

\* C25, amended: with a PCB-to-PCB connection recorded, wire_gauge and
\* location are answered and asked and are not the question asked; the
\* gauge answer is the empty default (None, 0.0) unless the opening message
\* gave a gauge, the location answer is ("internal", 0.95) unless a location
\* was given before, and is ("internal", 0.95) after the next answer
C25_PcbToPcbAutoAnswered ==
    [][ (selector' = "live" /\ IsPcbToPcb(answers')) =>
            /\ {"wire_gauge", "location"} \subseteq (DOMAIN answers' \cap asked_questions')
            /\ current_question' \in QuestionAttrs \ {"wire_gauge", "location"}
            /\ \/ answers'["wire_gauge"] = <<NoneV, 0>>
               \/ answers'["wire_gauge"][1].k = "num" /\ answers'["wire_gauge"][2] > 0
            /\ \/ answers'["location"] = DefaultLocation
               \/ answers'["location"] \in ParsedEntries("location") \cup AnswerEntries("location")
            /\ (selector = "live" /\ IsPcbToPcb(answers)) =>
                   answers'["location"] = DefaultLocation ]_vars

\* the connection question was answered PCB-to-PCB and both defaults were
\* stored by the selection that followed
C25_Witness ==
    /\ selector = "live" /\ IsPcbToPcb(answers)
    /\ question_history # <<>>
    /\ question_history[Len(question_history)].question = "connection_types"
    /\ answers["wire_gauge"] = <<NoneV, 0>>
    /\ answers["location"] = DefaultLocation
    /\ current_question \in QuestionAttrs

\* a location given in the opening message outlived the selection
C25_WitnessKept ==
    /\ selector = "live" /\ IsPcbToPcb(answers)
    /\ answers["location"] \in ParsedEntries("location")


\* the opening message that yields right_angle as ra and
\* connector_orientation as co
BothOrientations(ra, co) ==
    [a \in {"right_angle", "connector_orientation"} |-> IF a = "right_angle" THEN ra ELSE co]

\* the right_angle answer C26 asks for: ra when its confidence is not below
\* that of co, else NOT co at the confidence of co
HigherConfidence(ra, co) == IF ra[2] >= co[2] THEN ra ELSE <<BoolV(~co[1].b), co[2]>>

\* C26: an opening message that yields both right_angle and
\* connector_orientation leaves as right_angle answer the one implied by the
\* entry of higher confidence, at that confidence, right_angle winning
\* ties, and no connector_orientation answer; whichever way the message was
\* read
C26_HigherConfidenceWins ==
    selector = "none" =>
        \A ra \in ParsedEntries("right_angle") : \A co \in ParsedEntries("connector_orientation") :
            \A kind \in OpeningKinds :
                \A out \in {process_initial_message(NewSelector, BothOrientations(ra, co), {},
                                                    FALSE, kind).s} :
                    /\ "right_angle" \in DOMAIN out.answers
                    /\ out.answers["right_angle"] = HigherConfidence(ra, co)
                    /\ "connector_orientation" \notin DOMAIN out.answers

\* such an opening message was processed and the orientation, of higher
\* confidence, decided: right_angle is NOT straight, at confidence 1.0
C26_Witness ==
    /\ selector = "live" /\ result.parser \in {"extraction", "_fallback_parse"}
    /\ {"right_angle", "connector_orientation"} \subseteq asked_questions
    /\ DOMAIN answers = {"right_angle"}
    /\ answers["right_angle"] = <<BoolV(TRUE), 20>>

\* right_angle, of no lower confidence (0.9 against 0.9 or 0.8), was kept
C26_WitnessTie ==
    /\ selector = "live" /\ result.parser \in {"extraction", "_fallback_parse"}
    /\ {"right_angle", "connector_orientation"} \subseteq asked_questions
    /\ DOMAIN answers = {"right_angle"}
    /\ answers["right_angle"] = <<BoolV(TRUE), 18>>


\* the early recommendation's conditions on the scores and the asked set
\* after an answer: a leading score of 75 or more, more than 15 ahead of
\* every other, both critical questions asked, 3 or more questions asked
EarlyConditions(scores, asked) ==
    /\ \E best \in ConnectorSet :
          /\ scores[best] >= early_best_score * SCALE
          /\ \A c \in ConnectorSet \ {best} :
                scores[best] - scores[c] > early_score_gap * SCALE
    /\ {"mixed_power_signal", "housing_material"} \subseteq asked
    /\ Cardinality(asked) >= early_asked

\* the questions that can still be selected: not asked, and not one of the
\* two a PCB-to-PCB connection answers by itself
EligibleQuestions(ans, asked) ==
    OpenQuestions(asked) \ (IF IsPcbToPcb(ans) THEN {"wire_gauge", "location"} ELSE {})

C30_WitnessContinue ==
    /\ selector = "live" /\ result.via = "question" /\ result.parser = "output_parser"
    /\ \E best \in ConnectorSet :
          /\ confidence_scores[best] >= early_best_score * SCALE
          /\ \A c \in ConnectorSet \ {best} :
                confidence_scores[best] - confidence_scores[c] > early_score_gap * SCALE
    /\ Cardinality(asked_questions) >= early_asked
    /\ ~({"mixed_power_signal", "housing_material"} \subseteq asked_questions)


----------------------------------------------------------------------------
(* Asking again *)

\* skipped_questions.get(q["attribute"], 0) < 2
retry_cap == 2

\* the answer recorded for a is null with confidence 0, or of a confidence
\* below 0.5
UncertainAnswer(a) == answers[a] = <<NoneV, 0>> \/ answers[a][2] < 10

\* the answers process_answer recorded for a since the restart
TimesAnswered(a) ==
    Cardinality({i \in 1..Len(question_history) : question_history[i].question = a})

\* a was answered by the PCB-to-PCB connection, not by the user
AnsweredByDependency(a) == IsPcbToPcb(answers) /\ a \in {"wire_gauge", "location"}

\* C31: an attribute whose recorded answer is null with confidence 0 or of
\* low confidence, and which was answered fewer times than the retry cap of
\* 2, can be offered again: the selection does not exclude it; and no
\* attribute is answered more often than the cap between restarts
C31_UncertainOfferedAgain ==
    selector = "live" =>
        \A a \in QuestionAttrs :
            /\ TimesAnswered(a) <= retry_cap
            /\ (a \in DOMAIN answers /\ UncertainAnswer(a) /\ ~AnsweredByDependency(a)
                    /\ TimesAnswered(a) < retry_cap) =>
                   a \in OpenQuestions(asked_questions)

\* what the code keeps of C31: a question that is asked was not asked or
\* answered before, restart apart, and no attribute is answered twice
C31_AskedOnce ==
    [][ (selector' = "live" /\ current_question' # NoQuestion /\ ~result'.restarted) =>
            /\ current_question' \notin asked_questions'
            /\ selector = "live" => current_question' \notin asked_questions \cup {current_question}
            /\ \A a \in QuestionAttrs : TimesAnswered(a)' <= 1 ]_vars

\* the height question was answered "don't know" and three later questions
\* were answered since
C31_WitnessNotAgain ==
    /\ selector = "live" /\ current_question # NoQuestion
    /\ "height_requirement" \in DOMAIN answers /\ answers["height_requirement"] = <<NoneV, 0>>
    /\ Len(question_history) >= 3
    /\ question_history[Len(question_history)].question = "temp_range"


----------------------------------------------------------------------------
(* The range of the stored scores *)

\* C32: in every state of a session every entry of confidence_scores lies
\* in [0, 100], a connector named in the opening message included
C32_StoredScoresInRange ==
    \A c \in ConnectorSet :
        confidence_scores[c] >= 0 /\ confidence_scores[c] <= 100 * SCALE

\* what the code keeps of C32: a stored score is at least 0 and at most 100
\* plus the bonus of 15, and only the score of a connector the opening
\* message named, in the state the opening message leaves, is above 100
C32_AboveRangeOnlyByMention ==
    \A c \in ConnectorSet :
        /\ confidence_scores[c] >= 0
        /\ confidence_scores[c] <= (100 + mention_bonus) * SCALE
        /\ confidence_scores[c] > 100 * SCALE =>
               c = "DMM" /\ selector = "live" /\ result.parser \in {"extraction", "_fallback_parse"}

\* the opening message left a score above 100 and a question to answer
C32_WitnessAbove ==
    /\ selector = "live" /\ current_question # NoQuestion
    /\ confidence_scores["DMM"] > 100 * SCALE


----------------------------------------------------------------------------
(* The auto-fill and the answers already given *)

\* the opening message that yields location as loc and connection_type as ct
LocationAndType(loc, ct) ==
    [a \in {"location", "connection_type"} |-> IF a = "location" THEN loc ELSE ct]

\* C33: a step of a session that does not ask for the location and is no
\* restart leaves a location answer that is in answers as it is, a
\* PCB-to-PCB connection notwithstanding
C33_LocationAnswerKept ==
    [][ (selector = "live" /\ selector' = "live" /\ ~result'.restarted
            /\ current_question # "location" /\ "location" \in DOMAIN answers) =>
            /\ "location" \in DOMAIN answers'
            /\ answers'["location"] = answers["location"] ]_vars

\* C33 for the opening message: a location it yields next to a connection
\* type is the location answer it leaves
C33_OpeningKeepsLocation ==
    selector = "none" =>
        \A loc \in ParsedEntries("location") : \A ct \in ParsedEntries("connection_type") :
            \A out \in {process_initial_message(NewSelector, LocationAndType(loc, ct),
                                                {}, FALSE, "ok").s} :
                out.current_question # NoQuestion => out.answers["location"] = loc

\* what the code keeps of C33: the selection of the next question fills the
\* location in only when there is none, so the step that records the
\* PCB-to-PCB answer leaves a location answer alone
C33_SelectionKeepsLocation ==
    [][ (selector = "live" /\ selector' = "live" /\ ~result'.restarted
            /\ current_question = "connection_types" /\ "location" \in DOMAIN answers) =>
            answers'["location"] = answers["location"] ]_vars


----------------------------------------------------------------------------
(* The connection type of the opening message *)

\* the opening message was processed, a question is pending, and the
\* connection type it yielded is in types
OpeningYielded(types) ==
    /\ selector = "live"
    /\ result.parser \in {"extraction", "_fallback_parse"}
    /\ "connection_type" \in DOMAIN answers
    /\ answers["connection_type"][1].k = "str"
    /\ answers["connection_type"][1].s \in types

\* no device-to-device inference was made: the connection recorded is not
\* PCB-to-PCB, the location is not the internal default and the gauge is not
\* the empty answer of a skipped question
NoDeviceInference ==
    /\ ~IsPcbToPcb(answers)
    /\ "location" \in DOMAIN answers => answers["location"] # DefaultLocation
    /\ "wire_gauge" \in DOMAIN answers => answers["wire_gauge"] # <<NoneV, 0>>
    /\ "wire_gauge" \in asked_questions => "wire_gauge" \in DOMAIN answers

\* C34: after an opening message that yields a connection type with a
\* cable (PCB-to-Cable, Cable-to-PCB, Cable-to-Cable), connection_types is
\* not PCB-to-PCB, the location is not filled in as internal and the gauge
\* question is not skipped
C34_CableTypeNoInference ==
    OpeningYielded({S_PCB_to_Cable, S_Cable_to_PCB, S_Cable_to_Cable}) => NoDeviceInference

\* what the code keeps of C34: the same for PCB-to-Cable and Cable-to-Cable
C34_CableFirstNoInference ==
    OpeningYielded({S_PCB_to_Cable, S_Cable_to_Cable}) => NoDeviceInference

\* Cable-to-PCB is taken for PCB-to-PCB whenever it reaches the comparison
C34_CableToPcbInferred ==
    (OpeningYielded({S_Cable_to_PCB}) /\ "right_angle" \notin DOMAIN answers) =>
        /\ answers["connection_types"] = <<StrV(S_PCB_to_PCB), answers["connection_type"][2]>>
        /\ answers["location"] = DefaultLocation
        /\ "wire_gauge" \in asked_questions /\ current_question # "wire_gauge"
        /\ answers["wire_gauge"] = <<NoneV, 0>> \/ answers["wire_gauge"][1].k = "num"

\* an opening message with a Cable-to-Cable connection left the location
\* question to answer
C34_WitnessCable ==
    /\ OpeningYielded({S_Cable_to_Cable}) /\ current_question = "location"
    /\ "location" \notin DOMAIN answers

\* an opening message with a Cable-to-PCB connection left a question
C34_WitnessCableToPcb ==
    OpeningYielded({S_Cable_to_PCB}) /\ current_question # NoQuestion


----------------------------------------------------------------------------
(* The orientation of the opening message *)

\* C35: once the opening message is processed no connector_orientation
\* entry is in answers, whatever else the message yielded
C35_OrientationNeverRemains ==
    selector = "live" => "connector_orientation" \notin DOMAIN answers

\* what the code keeps of C35: no connector_orientation entry is in answers
\* unless the message yielded a connection type and no right_angle
C35_RemainsOnlyWithConnectionType ==
    (selector = "live" /\ "connector_orientation" \in DOMAIN answers) =>
        /\ "connection_type" \in DOMAIN answers
        /\ "right_angle" \notin DOMAIN answers \/ "right_angle" \in asked_questions

\* the orientation of the opening message was converted: right_angle holds
\* its negation at its confidence
C35_WitnessConverted ==
    /\ selector = "live" /\ result.parser = "extraction"
    /\ "connector_orientation" \notin DOMAIN answers
    /\ "right_angle" \in DOMAIN answers /\ answers["right_angle"] = <<BoolV(TRUE), 20>>

\* the orientation of the opening message remains next to a connection type
C35_WitnessRemains ==
    /\ selector = "live" /\ result.parser = "extraction"
    /\ {"connector_orientation", "connection_type"} \subseteq DOMAIN answers
    /\ "right_angle" \notin DOMAIN answers


----------------------------------------------------------------------------
(* EMI protection in the opening message *)

\* the opening message was processed, a question is pending, and it yielded
\* emi_protection = true with a confidence above 0.8
EmiRequired ==
    /\ selector = "live"
    /\ result.parser \in {"extraction", "_fallback_parse"}
    /\ "emi_protection" \in DOMAIN answers
    /\ answers["emi_protection"][1] = BoolV(TRUE) /\ answers["emi_protection"][2] > 16

\* C38: when the opening message yields emi_protection = true with a
\* confidence above 0.8, the first question is asked with housing_material
\* = metal, at the confidence of the EMI entry, in answers
C38_EmiStoresMetal ==
    EmiRequired =>
        /\ "housing_material" \in DOMAIN answers
        /\ answers["housing_material"] = <<StrV(S_metal), answers["emi_protection"][2]>>

\* what the code keeps of C38: the housing question is skipped, and a
\* housing answer the message yielded as well is metal at the confidence of
\* the EMI entry; with no housing answer of the message there is none
C38_HousingSkipped ==
    EmiRequired =>
        /\ "housing_material" \in asked_questions /\ current_question # "housing_material"
        /\ "housing_material" \in DOMAIN answers =>
               answers["housing_material"] = <<StrV(S_metal), answers["emi_protection"][2]>>

\* the message yielded a plastic housing of low confidence next to the EMI
\* entry: metal is stored, and the scores are those of the plastic answer
C38_WitnessReplaced ==
    /\ EmiRequired /\ "housing_material" \in DOMAIN answers
    /\ \E c \in PlasticConnectors :
          confidence_scores[c] > calculate_connector_score(connectors[c], answers)

\* the message yielded the EMI entry and no housing: none is stored
C38_WitnessNoHousing ==
    /\ EmiRequired /\ "housing_material" \notin DOMAIN answers
    /\ "housing_material" \in asked_questions


----------------------------------------------------------------------------
(* _aggressive_fallback_parse on its own *)

\* longest response passed
MaxResponseLen == 16

\* the pieces the responses passed are made of
ResponseWords ==
    {<<"S","t","e","e","l"," ">>,
     <<"p","r","e","f","e","r"," ">>,
     <<"p","l","a","s","t","i","c"," ">>,
     <<"n","o"," ","i","d","e","a"," ">>,
     <<"1",".","6","m","m"," ">>,
     <<"2"," ","m","m">>,
     <<"8","5"," ","c">>,
     <<"4","0",DegreeSign,"C"," ">>}

\* _aggressive_fallback_parse("", question) for each question
ParseInit ==
    /\ score_args = EmptyDict
    /\ score_result = ScoreAll(EmptyDict)
    /\ SelectorInit
    /\ selector = "none"
    /\ result = NoResult
    /\ ApiInit
    /\ AwgIdle
    /\ ServiceIdle
    /\ parse_args \in {[response |-> <<>>, attribute |-> a] : a \in QuestionAttrs}
    /\ parse_returned = _aggressive_fallback_parse(parse_args.response, parse_args.attribute)

\* _aggressive_fallback_parse(response + word, question) for the response
\* passed before
ParseLonger(word) ==
    /\ Len(parse_args.response) + Len(word) <= MaxResponseLen
    /\ parse_args' = [parse_args EXCEPT !.response = @ \o word]
    /\ parse_returned' = _aggressive_fallback_parse(parse_args'.response, parse_args'.attribute)
    /\ UNCHANGED <<score_vars, session_vars, api_vars, awg_vars, service_vars>>

ParseNext == \E word \in ResponseWords : ParseLonger(word)

SpecParse == ParseInit /\ [][ParseNext]_vars

----------------------------------------------------------------------------
(* Properties of _aggressive_fallback_parse, checked under SpecParse *)

\* the value returned is a default the response gives no ground for: it was
\* taken from default_values, or it is the plastic of a response that names
\* no housing at all
GuessedDefault ==
    \/ parse_returned.reasoning = "Used default value after multiple parse failures"
    \/ /\ parse_returned.reasoning = "Defaulted to plastic as no metal indicators found"
       /\ ~Contains(S_plastic, Lower(parse_args.response))

\* C39: a default the aggressive fallback substitutes without any ground in
\* the response is returned with a confidence of at most 0.3, below the 0.7
\* of a high-confidence answer
C39_GuessedDefaultLow ==
    GuessedDefault => parse_returned.confidence <= 6

\* what the code keeps of C39: the defaults of default_values come at 0.3;
\* the question about the housing never gets one of them, its guessed
\* plastic comes at 0.95, or at 0.85 next to a word of preference
C39_GuessedLowButHousing ==
    GuessedDefault =>
        IF parse_args.attribute = "housing_material"
        THEN /\ parse_returned.value = StrV(S_plastic)
             /\ parse_returned.confidence \in {17, 19}
             /\ parse_returned.reasoning = "Defaulted to plastic as no metal indicators found"
        ELSE /\ parse_returned.value = default_values[parse_args.attribute]
             /\ parse_returned.confidence = 6

\* "no idea" answered to the question about the housing: plastic at 0.95
C39_WitnessHousing ==
    /\ parse_args.attribute = "housing_material"
    /\ GuessedDefault
    /\ Len(parse_args.response) > 0
    /\ parse_returned.confidence = 19

\* a default of default_values, at 0.3
C39_WitnessDefault ==
    /\ parse_args.attribute = "pin_count"
    /\ Len(parse_args.response) > 0
    /\ parse_returned = Parsed(NumV(20), 6, "Used default value after multiple parse failures")

\* a pitch read from the response and moved to the nearest common pitch
C39_WitnessPitch ==
    /\ parse_args.attribute = "pitch_size"
    /\ parse_returned = Parsed(FloatV(127), 12, "Approximated to standard pitch size")


----------------------------------------------------------------------------
(* connector_service: the requests of one session, taken up concurrently *)

\* requests of the session
MaxRequests == 4

\* LLMConnectorSelector(): current_question is None
CreatedSelector == [current_question |-> FALSE]

\* a call of generate_connector_selection: the awaited call it stands at
\* ("done" once it returned), its local `selector`, and what it yielded
Request(pc, sel, yielded) == [pc |-> pc, selector |-> sel, yielded |-> yielded]

\* what process_initial_message and process_answer may return once the
\* Interpreter answered
InitialStatuses == {"continue", "complete"}

AnswerStatuses == {"continue", "complete", "error"}

\* generate_connector_selection from its start to its first await.  Without
\* a selector in the session it creates one, stores it in session_mapping
\* and awaits process_initial_message.  With one it calls process_answer,
\* which returns the error at once when no question is pending (the service
\* then discards the selector), answers a restart without awaiting, and
\* awaits the Interpreter otherwise
selection_request(restarts) ==
    /\ Len(requests) < MaxRequests
    /\ IF connector_selector = 0
       THEN /\ selectors' = Append(selectors, CreatedSelector)
            /\ connector_selector' = Len(selectors) + 1
            /\ requests' = Append(requests,
                   Request("process_initial_message", Len(selectors) + 1, "nothing"))
       ELSE IF ~selectors[connector_selector].current_question
       THEN /\ connector_selector' = 0
            /\ requests' = Append(requests,
                   Request("done", connector_selector, "Error: No active question"))
            /\ UNCHANGED selectors
       ELSE IF restarts
       THEN /\ requests' = Append(requests, Request("done", connector_selector, "question"))
            /\ UNCHANGED <<connector_selector, selectors>>
       ELSE /\ requests' = Append(requests,
                   Request("process_answer", connector_selector, "nothing"))
            /\ UNCHANGED <<connector_selector, selectors>>
    /\ UNCHANGED <<score_vars, session_vars, api_vars, awg_vars, parse_vars>>

\* the Interpreter answered the opening message of request r:
\* process_initial_message sets the current_question of the request's own
\* selector and returns the question, or returns a recommendation, after
\* which the service sets the session's connector_selector to None
initial_returns(r, status) ==
    /\ r \in DOMAIN requests
    /\ requests[r].pc = "process_initial_message"
    /\ IF status = "continue"
       THEN /\ selectors' = [selectors EXCEPT ![requests[r].selector].current_question = TRUE]
            /\ requests' = [requests EXCEPT ![r] = Request("done", @.selector, "question")]
            /\ UNCHANGED connector_selector
       ELSE /\ connector_selector' = 0
            /\ requests' = [requests EXCEPT ![r] = Request("done", @.selector, "recommendation")]
            /\ UNCHANGED selectors
    /\ UNCHANGED <<score_vars, session_vars, api_vars, awg_vars, parse_vars>>

\* the Interpreter answered for the answer of request r: the next question,
\* or a recommendation or an error, after which the service sets the
\* session's connector_selector to None
answer_returns(r, status) ==
    /\ r \in DOMAIN requests
    /\ requests[r].pc = "process_answer"
    /\ requests' = [requests EXCEPT ![r] =
           Request("done", @.selector,
                   CASE status = "continue" -> "question"
                     [] status = "complete" -> "recommendation"
                     [] OTHER               -> "Error")]
    /\ connector_selector' = IF status = "continue" THEN connector_selector ELSE 0
    /\ UNCHANGED selectors
    /\ UNCHANGED <<score_vars, session_vars, api_vars, awg_vars, parse_vars>>

ServiceNext ==
    \/ \E restarts \in BOOLEAN : selection_request(restarts)
    \/ \E r \in 1..MaxRequests : \E status \in InitialStatuses : initial_returns(r, status)
    \/ \E r \in 1..MaxRequests : \E status \in AnswerStatuses : answer_returns(r, status)

SpecService == Init /\ [][ServiceNext]_vars

----------------------------------------------------------------------------
(* Properties of the concurrent requests, checked under SpecService *)

\* C40: of two requests of a session taken up concurrently the second never
\* meets the selector before its opening message was processed: no request
\* is answered "No active question", and while a request awaits the
\* processing of its opening message its selector stays the session's
C40_SecondWaitsForOpening ==
    \A r \in DOMAIN requests :
        /\ requests[r].yielded # "Error: No active question"
        /\ requests[r].pc = "process_initial_message" =>
               connector_selector = requests[r].selector

\* what the code keeps of C40: a request is answered "No active question"
\* only when it arrives while the request that created the session's
\* selector still awaits the processing of its opening message
C40_ErrorOnlyWhileOpening ==
    [][ \A r \in DOMAIN requests' :
            (r \notin DOMAIN requests /\ requests'[r].yielded = "Error: No active question") =>
                /\ \E q \in DOMAIN requests :
                      /\ requests[q].pc = "process_initial_message"
                      /\ requests[q].selector = connector_selector
                /\ connector_selector' = 0 ]_vars

\* the second request got the error, and the first, still awaiting, has lost
\* its place in the session
C40_WitnessDiscarded ==
    /\ Len(requests) = 2
    /\ requests[1].pc = "process_initial_message"
    /\ requests[2].yielded = "Error: No active question"
    /\ connector_selector = 0

\* the first request returned its question to a session without selector:
\* the third request started a second selector
C40_WitnessSecondSelector ==
    /\ Len(requests) = 3
    /\ requests[1].yielded = "question"
    /\ requests[2].yielded = "Error: No active question"
    /\ requests[3].pc = "process_initial_message"
    /\ Len(selectors) = 2

====
